---- MODULE Spec2Model ----
(***************************************************************************)
(* pynetkit: the module runtime (pre-run guard, lifecycle), the DHCP       *)
(* server engine and the event bus, as state machines.                     *)
(***************************************************************************)
EXTENDS Integers, Sequences, FiniteSets, TLC

\* Python's None, among strings; also "option not present" of a DHCP packet.
NoValue == "None"
\* None where an address or a MAC is expected (addresses and MACs are >= 1).
NoAddr == 0
\* None where a lease range is expected.
NoRange == <<>>

----------------------------------------------------------------------------
\* Bounds of the model.

\* Client hardware addresses are 1..MaxMac.
MaxMac == 3
\* Every lease range the module is configured with holds RangeLen addresses.
RangeLen == 2
\* Event instances published on the bus are numbered 1..MaxPublish.
MaxPublish == 3
\* Concurrent awaiters of the event bus are 1..MaxAwaiter.
MaxAwaiter == 3

MACs == 1 .. MaxMac
Ranges == {<<1, RangeLen>>, <<2, RangeLen + 1>>}
Awaiters == 1 .. MaxAwaiter

----------------------------------------------------------------------------
\* Values of the DHCP module's configuration fields.

PreRunKeys == {"address", "port"}
RuntimeKeys == {"ipconfig", "range", "dns", "hostname"}
ConfigKeys == PreRunKeys \cup RuntimeKeys

DefaultAddress == "0.0.0.0"
DefaultPort == 67
DefaultHostname == "pynetkit"

\* An Ip4Config, named by its address (netmask /24, gateway the address).
IpConfig1 == "10.0.0.1"

\* The values a caller assigns to each field.
ConfigValues(key) ==
    CASE key = "address"  -> {DefaultAddress, "10.0.0.1"}
      [] key = "port"     -> {DefaultPort, 6767}
      [] key = "ipconfig" -> {NoValue, IpConfig1}
      [] key = "range"    -> {NoRange} \cup Ranges
      [] key = "dns"      -> {NoValue, "10.0.0.1"}
      [] key = "hostname" -> {NoValue, DefaultHostname}

EmptyHosts == [m \in {} |-> 0]
\* Lease tables a caller assigns to the hosts field.
HostTables == {EmptyHosts, [m \in {1} |-> 1], [m \in {1, 2} |-> 1]}

\* DHCP messages.
ServedTypes == {"DISCOVER", "REQUEST", "INFORM"}
MessageTypes == ServedTypes \cup {"RELEASE", NoValue}
ParamLists == {NoValue, "listed"}

\* A received datagram: valid is FALSE when DhcpPacket.unpack raises on it.
\* An option the packet does not carry reads as NoValue. One datagram that
\* does not decode and one BOOT_REPLY stand for all of their kind: nothing
\* else of them is read.
Datagrams ==
    [valid : {TRUE}, ptype : {"BOOT_REQUEST"}, mtype : MessageTypes,
     mac : MACs, params : ParamLists]
    \cup [valid : {FALSE}, ptype : {"BOOT_REQUEST"}, mtype : {NoValue},
          mac : {1}, params : {NoValue}]
    \cup [valid : {TRUE}, ptype : {"BOOT_REPLY"}, mtype : {"DISCOVER"},
          mac : {1}, params : {"listed"}]

\* Event types of the bus.
LeaseEvent == "DhcpLeaseEvent"
EventTypes == {LeaseEvent, "WifiAPStoppedEvent"}

VARIABLES
    config,     \* the DHCP module's configuration fields
    hosts,      \* the lease table: MAC -> address
    is_started, \* lifecycle state: TRUE = running
    should_run, \* the flag the run loop observes
    sock,       \* the server socket handle: NoValue or "open"
    pc,         \* position of the run coroutine
    stopPc,     \* position of the caller inside stop()
    last,       \* outcome of the last operation
    awaiters,   \* event bus: state of each awaiter
    nPublished, \* event bus: number of event instances published so far
    wifi,       \* the Wi-Fi module: lifecycle state and fields
    call,       \* the caller's call of a context-owned operation
    codec,      \* a DHCP packet's option table, its wire bytes, the decoded table
    wop,        \* the Wi-Fi operation that waits for a completion event
    ctx,        \* the Wi-Fi module's execution context: tasks queued, task running
    shell,      \* the command layer: modules imported, the last run_command
    input,      \* the input window: history, lines, cursor, escape parser
    network,    \* the network commands: CONFIG, the adapters, the last report
    logger      \* the logging handler: emit_lock and the threads in emit_raw

vars == <<config, hosts, is_started, should_run, sock, pc, stopPc,
          last, awaiters, nPublished, wifi, call, codec, wop, ctx,
          shell, input, network, logger>>

lifeVars == <<is_started, should_run, sock, pc, stopPc>>
busVars == <<awaiters, nPublished>>
cliVars == <<shell, input, network, logger>>
peerVars == <<wifi, call, codec, wop, ctx, cliVars>>
dhcpVars == <<config, hosts, lifeVars>>
\* The modules and the event bus, which the command layer's own state
\* machines leave alone.
moduleVars == <<dhcpVars, busVars, last, wifi, call, codec, wop, ctx>>

NoEvent == [type |-> NoValue, id |-> 0, client |-> NoAddr, address |-> NoAddr]

\* No datagram was sent.
NoReply == [ptype |-> NoValue, mtype |-> NoValue, mac |-> NoAddr,
            yiaddr |-> NoAddr, siaddr |-> NoValue, server_id |-> NoValue,
            to |-> NoValue]

\* The record an operation leaves behind: the field written or the message
\* type served, the client MAC, whether the MAC had a lease before, what
\* happened, the address replied and the events published, in order; names
\* is what the message of a raised configuration-state error names; reply is
\* the datagram sent and effects the calls that left the module, in the
\* order they were made.
Out(op, key, mac, known, outcome, addr, events) ==
    [op |-> op, key |-> key, mac |-> mac, known |-> known, outcome |-> outcome,
     addr |-> addr, events |-> events, names |-> NoValue, reply |-> NoReply,
     effects |-> <<>>]

\* The record of an operation that serves no client.
Done(op, key, outcome) == Out(op, key, NoAddr, FALSE, outcome, NoAddr, <<>>)
IdleAwaiter == [st |-> "idle", type |-> NoValue, reg |-> 0, ev |-> NoEvent]

\* WifiWindows.ap_clients = None: no set of clients yet.
NoClients == {NoAddr}

\* No client event was broadcast for any client yet.
NeverHeard == [c \in MACs |-> NoValue]

\* The result of an operation: what it returned or the exception it raised.
Result(kind, value) == [kind |-> kind, value |-> value]
NoResult == Result(NoValue, {})

\* A call of a context-owned operation: where it stands, the operation, what
\* the body produced (res) and what the caller received (got).
NoCall == [st |-> "none", op |-> NoValue, res |-> NoResult, got |-> NoResult]

\* An option table without options.
EmptyTable == [code \in {} |-> <<>>]

\* A packet whose options were cleared: not packed, nothing decoded.
NoPacket == [st |-> "built", table |-> EmptyTable, wire |-> <<>>,
             decoded |-> EmptyTable]

\* No operation that waits for an event was called: its name, the steps it
\* has left, the notification of the system it caused, how it ended.
NoOp == [st |-> "none", op |-> NoValue, body |-> <<>>, notify |-> "none",
         res |-> NoValue]

\* An execution context with nothing scheduled and nothing running.
IdleContext == [queue |-> <<>>, running |-> NoValue]

\* The command layer before the first command: no command module imported.
NoCommand == [imported |-> {}, body |-> NoValue, outcome |-> NoValue,
              log |-> <<>>]

\* InputWindow.__post_init__ and the class attributes: an empty history, one
\* empty line, the escape parser at rest; out is what handle_escape returned
\* last.
NewInput == [history |-> <<>>, lines |-> <<<<>>>>, index |-> 0, pos |-> 0,
             escape_state |-> "NONE", escape_code |-> <<>>, out |-> <<>>,
             error |-> NoValue]

\* What get_adapter_addresses reads for an adapter that uses DHCP.
UsesDhcp == [dhcp |-> TRUE, addresses |-> <<>>]

\* CONFIG = {}; report is what the last command told the user: the message,
\* the index it is about and the configuration it names as assigned.
NoNetwork == [CONFIG |-> [i \in {} |-> NoValue],
              report |-> [said |-> NoValue, index |-> 0, assigned |-> UsesDhcp]]

\* The most threads that log, and the most emitters added.
MaxThread == 2
MaxEmitter == 2
Threads == 1 .. MaxThread

\* LoggingHandler.__init__: emit_lock = Lock(), no emitter; the lock of the
\* handler (logging.Handler.lock) is free and no thread is in a log call.
\* out is how the last log call of each thread ended.
NewLogger == [emit_lock |-> FALSE, lock |-> 0, emitters |-> 0,
              at |-> [t \in Threads |-> "idle"],
              out |-> [t \in Threads |-> NoValue]]

\* DhcpModule.__init__
Init ==
    /\ config = [address |-> DefaultAddress, port |-> DefaultPort,
                 ipconfig |-> NoValue, range |-> NoRange, dns |-> NoValue,
                 hostname |-> DefaultHostname]
    /\ hosts = EmptyHosts
    /\ is_started = FALSE
    /\ should_run = FALSE
    /\ sock = NoValue
    /\ pc = "none"
    /\ stopPc = "idle"
    /\ last = Done("init", NoValue, "ok")
    /\ awaiters = [a \in Awaiters |-> IdleAwaiter]
    /\ nPublished = 0
    /\ wifi = [is_started |-> FALSE, runs |-> 0, notification |-> NoValue,
               dpapi |-> NoValue, ap_clients |-> NoClients,
               published |-> {}, heard |-> NeverHeard,
               heard_run |-> NeverHeard]
    /\ call = NoCall
    /\ codec = NoPacket
    /\ wop = NoOp
    /\ ctx = IdleContext
    /\ shell = NoCommand
    /\ input = NewInput
    /\ network = NoNetwork
    /\ logger = NewLogger

----------------------------------------------------------------------------
\* ModuleBase.__setattr__: the pre-run guard.

\* PRE_RUN_CONFIG of a module type (None on the types that declare none).
PRE_RUN_CONFIG(type) ==
    IF type = "DhcpModule" THEN {"address", "port"} ELSE {}

\* The guard with the lifecycle test inverted.
SetAttrRejected_Inverted(type, key, started) ==
    ~ ( \/ PRE_RUN_CONFIG(type) = {}
        \/ key \notin PRE_RUN_CONFIG(type)
        \/ started )

\* The guard without the test of the field name.
SetAttrRejected_AnyKey(type, key, started) ==
    ~ ( \/ PRE_RUN_CONFIG(type) = {}
        \/ ~started )

\* TRUE when __setattr__ raises instead of assigning.
SetAttrRejected(type, key, started) ==
    ~ ( \/ PRE_RUN_CONFIG(type) = {}
        \/ key \notin PRE_RUN_CONFIG(type)
        \/ ~started )

\* What the message of the error of __setattr__ names: the type of the
\* module, in "<type> must be stopped first".
SetAttrError(type, key) ==
    [Done("setattr", key, "RuntimeError") EXCEPT !.names = type]

\* module.<key> = value, for a configuration field
SetAttr(key, value) ==
    /\ IF SetAttrRejected("DhcpModule", key, is_started)
       THEN /\ last' = SetAttrError("DhcpModule", key)
            /\ UNCHANGED config
       ELSE /\ config' = [config EXCEPT ![key] = value]
            /\ last' = Done("setattr", key, "ok")
    /\ UNCHANGED <<hosts, lifeVars, busVars>>
    /\ UNCHANGED peerVars

\* module.hosts = table
SetHosts(table) ==
    /\ IF SetAttrRejected("DhcpModule", "hosts", is_started)
       THEN /\ last' = SetAttrError("DhcpModule", "hosts")
            /\ UNCHANGED hosts
       ELSE /\ hosts' = table
            /\ last' = Done("setattr", "hosts", "ok")
    /\ UNCHANGED <<config, lifeVars, busVars>>
    /\ UNCHANGED peerVars

----------------------------------------------------------------------------
\* The event bus.

\* A publish that resolves only the first awaiter pending for the type.
Publish_FirstOnly(aw, ev) ==
    [a \in Awaiters |->
        IF /\ aw[a].st = "pending" /\ aw[a].type = ev.type
           /\ \A b \in Awaiters :
                 (aw[b].st = "pending" /\ aw[b].type = ev.type) => a <= b
        THEN [aw[a] EXCEPT !.st = "resolved", !.ev = ev]
        ELSE aw[a]]

\* publish(event): every awaiter pending for the event's type is resolved
\* with the event.
Publish(aw, ev) ==
    [a \in Awaiters |->
        IF aw[a].st = "pending" /\ aw[a].type = ev.type
        THEN [aw[a] EXCEPT !.st = "resolved", !.ev = ev]
        ELSE aw[a]]

\* The number of the next event instance (saturating at MaxPublish).
NextId == IF nPublished < MaxPublish THEN nPublished + 1 ELSE MaxPublish

Event(type, client, address) ==
    [type |-> type, id |-> NextId, client |-> client, address |-> address]

\* A registration that hands over the last event published, when it has
\* the type awaited.
AwaitNext_Buffered(a, type) ==
    /\ awaiters[a].st = "idle"
    /\ awaiters' = [awaiters EXCEPT ![a] =
                      IF last.events # <<>> /\ last.events[1].type = type
                      THEN [st |-> "resolved", type |-> type, reg |-> nPublished,
                            ev |-> last.events[1]]
                      ELSE [st |-> "pending", type |-> type, reg |-> nPublished,
                            ev |-> NoEvent]]
    /\ UNCHANGED <<config, hosts, lifeVars, last, nPublished>>
    /\ UNCHANGED peerVars

\* EventType.any(): awaiter a starts waiting for the next event of a type
AwaitNext(a, type) ==
    /\ awaiters[a].st = "idle"
    /\ awaiters' = [awaiters EXCEPT ![a] =
                      [st |-> "pending", type |-> type, reg |-> nPublished,
                       ev |-> NoEvent]]
    /\ UNCHANGED <<config, hosts, lifeVars, last, nPublished>>
    /\ UNCHANGED peerVars

\* The awaiting coroutine resumes with its event; the subscription is gone.
Resume(a) ==
    /\ awaiters[a].st = "resolved"
    /\ awaiters' = [awaiters EXCEPT ![a] = IdleAwaiter]
    /\ UNCHANGED <<config, hosts, lifeVars, last, nPublished>>
    /\ UNCHANGED peerVars

\* Event().broadcast() of an event without payload, by any module
Broadcast(type) ==
    /\ nPublished < MaxPublish
    /\ awaiters' = Publish(awaiters, Event(type, NoAddr, NoAddr))
    /\ nPublished' = nPublished + 1
    /\ last' = Out("broadcast", type, NoAddr, FALSE, "ok", NoAddr,
                   <<Event(type, NoAddr, NoAddr)>>)
    /\ UNCHANGED <<config, hosts, lifeVars>>
    /\ UNCHANGED peerVars

----------------------------------------------------------------------------
\* The DHCP server engine.

HostValues(h) == {h[m] : m \in DOMAIN h}

\* The elements of a sequence.
Range(seq) == {seq[i] : i \in DOMAIN seq}

\* A scan that tests the end of the range with > : it runs one address past.
RECURSIVE ScanFrom_PastEnd(_, _, _)
ScanFrom_PastEnd(address, end, taken) ==
    IF address \in taken
    THEN IF address > end THEN NoAddr ELSE ScanFrom_PastEnd(address + 1, end, taken)
    ELSE address

\* A scan that stops at the end of the range without raising.
RECURSIVE ScanFrom_StopAtEnd(_, _, _)
ScanFrom_StopAtEnd(address, end, taken) ==
    IF address \in taken /\ address < end
    THEN ScanFrom_StopAtEnd(address + 1, end, taken)
    ELSE address

\* The scan of _choose_ip_address: the first address from `address` on that
\* no lease holds, or NoAddr (the RuntimeError) once a held address at or
\* past `end` is met.
RECURSIVE ScanFrom(_, _, _)
ScanFrom(address, end, taken) ==
    IF address \in taken
    THEN IF address >= end THEN NoAddr ELSE ScanFrom(address + 1, end, taken)
    ELSE address

\* An allocator without the lookup of the existing lease.
ChooseIpAddress_NoLookup(h, rng, mac) ==
    LET address == ScanFrom(rng[1], rng[2], HostValues(h))
    IN  IF address = NoAddr
        THEN [address |-> NoAddr, hosts |-> h]
        ELSE [address |-> address,
              hosts |-> [m \in DOMAIN h \cup {mac} |->
                           IF m = mac THEN address ELSE h[m]]]

\* DhcpModule._choose_ip_address: the address returned (NoAddr when it
\* raises) and the lease table it leaves.
ChooseIpAddress(h, rng, mac) ==
    IF mac \in DOMAIN h
    THEN [address |-> h[mac], hosts |-> h]
    ELSE LET address == ScanFrom(rng[1], rng[2], HostValues(h))
         IN  IF address = NoAddr
             THEN [address |-> NoAddr, hosts |-> h]
             ELSE [address |-> address,
                   hosts |-> [m \in DOMAIN h \cup {mac} |->
                                IF m = mac THEN address ELSE h[m]]]

\* A lease event that carries the client's own IP field, unset in a request.
DhcpLeaseEvent_ClientIp(client, address) == Event(LeaseEvent, client, NoAddr)

\* A lease event published under the type of another event.
DhcpLeaseEvent_OtherType(client, address) ==
    Event("WifiAPStoppedEvent", client, address)

\* The lease-granted event of a served request.
DhcpLeaseEvent(client, address) == Event(LeaseEvent, client, address)

\* A test that lets every datagram that decodes through.
Discarded_OnlyInvalid(d) == ~d.valid

\* _process_request returns before it reads the message type: the datagram
\* does not decode, or is no BOOT_REQUEST.
Discarded(d) == ~d.valid \/ d.ptype # "BOOT_REQUEST"

\* A test of the message type that serves a packet without the option.
Unhandled_ServesUntyped(d) ==
    d.mtype \notin {"DISCOVER", "REQUEST", "INFORM", NoValue}

\* _process_request returns after it read the message type: the type is none
\* of those served.
Unhandled(d) == d.mtype \notin {"DISCOVER", "REQUEST", "INFORM"}

\* A precondition that requires the lease range alone.
Unconfigured_RangeOnly(cfg) ==
    IF cfg.range = NoRange THEN "norange" ELSE NoValue

\* The configuration precondition of _process_request: what it refuses the
\* request for, or NoValue when it goes on to serve it.
Unconfigured(cfg) ==
    IF cfg.ipconfig = NoValue THEN "noconfig"
    ELSE IF cfg.range = NoRange THEN "norange"
    ELSE NoValue

\* A reply that acknowledges whatever the request was.
Reply_AlwaysAck(d, address) ==
    [ptype |-> "BOOT_REPLY", mtype |-> "ACK", mac |-> d.mac,
     yiaddr |-> address, siaddr |-> config.ipconfig,
     server_id |-> config.ipconfig, to |-> "255.255.255.255:68"]

\* The reply of _process_request: the request packet with its type, your-IP,
\* server-IP and options rewritten, and where it is sent.
Reply(d, address) ==
    [ptype |-> "BOOT_REPLY",
     mtype |-> IF d.mtype = "DISCOVER" THEN "OFFER" ELSE "ACK",
     mac |-> d.mac, yiaddr |-> address, siaddr |-> config.ipconfig,
     server_id |-> config.ipconfig, to |-> "255.255.255.255:68"]

\* A handler that publishes the lease event before it sends the reply.
Served_EventFirst(mtype) ==
    IF mtype # "DISCOVER" THEN <<"broadcast", "sendto">> ELSE <<"sendto">>

\* What _process_request does once the reply is built: sendto, then the
\* broadcast of the lease event unless the request was a DISCOVER.
Served(mtype) ==
    IF mtype # "DISCOVER" THEN <<"sendto", "broadcast">> ELSE <<"sendto">>

\* The calls of `effects` that are made: all of them, or those before the
\* sendto that raises.
Performed(effects, sendOk) ==
    IF sendOk THEN effects
    ELSE SubSeq(effects, 1,
                (CHOOSE i \in DOMAIN effects : effects[i] = "sendto") - 1)

\* One iteration of the server loop: _process_request on datagram d.
\* sendOk is FALSE when sendto raises.
ProcessRequest(d, sendOk) ==
    /\ pc = "recv"
    /\ sock = "open"
    /\ LET chosen == ChooseIpAddress(hosts, config.range, d.mac)
           event == DhcpLeaseEvent(d.mac, chosen.address)
           Dropped(outcome) ==
               /\ last' = Done("request", NoValue, outcome)
               /\ pc' = "loop"
               /\ UNCHANGED <<hosts, busVars>>
           Raised(outcome) ==
               /\ last' = Out("request", NoValue, d.mac, d.mac \in DOMAIN hosts,
                              outcome, NoAddr, <<>>)
               /\ pc' = "failed"
               /\ hosts' = chosen.hosts
               /\ UNCHANGED busVars
       IN  IF Discarded(d)
           THEN Dropped(IF ~d.valid THEN "invalid" ELSE "ignored")
           ELSE IF Unhandled(d) THEN Dropped("unhandled")
           ELSE IF Unconfigured(config) # NoValue
                THEN Dropped(Unconfigured(config))
           ELSE IF chosen.address = NoAddr THEN Raised("RuntimeError")
           ELSE IF d.params = NoValue THEN Raised("TypeError")
           ELSE LET made == Performed(Served(d.mtype), sendOk)
                    events == IF "broadcast" \in Range(made)
                              THEN <<event>> ELSE <<>>
                    out == IF sendOk
                           THEN [Out("request", d.mtype, d.mac,
                                     d.mac \in DOMAIN hosts, "replied",
                                     chosen.address, events)
                                   EXCEPT !.reply = Reply(d, chosen.address)]
                           ELSE Out("request", NoValue, d.mac,
                                    d.mac \in DOMAIN hosts, "OSError",
                                    NoAddr, events)
                IN  /\ hosts' = chosen.hosts
                    /\ pc' = IF sendOk THEN "loop" ELSE "failed"
                    /\ last' = [out EXCEPT !.effects = made]
                    /\ IF events # <<>>
                       THEN /\ awaiters' = Publish(awaiters, event)
                            /\ nPublished' = NextId
                       ELSE UNCHANGED busVars
    /\ UNCHANGED <<config, is_started, should_run, sock, stopPc>>
    /\ UNCHANGED peerVars

\* DhcpModule.run up to the loop: the socket is created and bound.
RunBind ==
    /\ pc = "bind"
    /\ sock' = "open"
    /\ pc' = "loop"
    /\ UNCHANGED <<config, hosts, is_started, should_run, stopPc,
                   last, busVars>>
    /\ UNCHANGED peerVars

\* DhcpModule.run: the loop condition; run returns when it is false.
RunLoopCheck ==
    /\ pc = "loop"
    /\ pc' = IF should_run /\ sock # NoValue THEN "recv" ELSE "returned"
    /\ UNCHANGED <<config, hosts, is_started, should_run, sock, stopPc,
                   last, busVars>>
    /\ UNCHANGED peerVars

\* recvfrom on a socket that cleanup closed: the exception leaves run.
RecvClosed ==
    /\ pc = "recv"
    /\ sock = NoValue
    /\ pc' = "failed"
    /\ UNCHANGED <<config, hosts, is_started, should_run, sock, stopPc,
                   last, busVars>>
    /\ UNCHANGED peerVars

----------------------------------------------------------------------------
\* The module lifecycle.

\* start() on an idle module: the execution context is created and run begins.
Start ==
    /\ stopPc = "idle"
    /\ ~is_started
    /\ is_started' = TRUE
    /\ should_run' = TRUE
    /\ pc' = "bind"
    /\ last' = Done("start", NoValue, "ok")
    /\ UNCHANGED <<config, hosts, sock, stopPc, busVars>>
    /\ UNCHANGED peerVars

\* An end of the execution context that leaves the module marked running.
RunExit_StaysStarted ==
    /\ pc \in {"returned", "failed"}
    /\ pc' = "none"
    /\ UNCHANGED <<config, hosts, is_started, should_run, sock, stopPc, last,
                   busVars>>
    /\ UNCHANGED peerVars

\* The execution context ends after run returned or raised: the module is
\* stopped.
RunExit ==
    /\ pc \in {"returned", "failed"}
    /\ pc' = "none"
    /\ is_started' = FALSE
    /\ should_run' = FALSE
    /\ UNCHANGED <<config, hosts, sock, stopPc, last, busVars>>
    /\ UNCHANGED peerVars

\* A cleanup that closes the socket and keeps its handle.
Cleanup_KeepHandle == sock' = sock

\* DhcpModule.cleanup
Cleanup == sock' = NoValue

\* A stop whose cleanup also empties the lease table.
StopCleanup_ClearHosts ==
    /\ stopPc = "idle"
    /\ Cleanup
    /\ hosts' = EmptyHosts
    /\ stopPc' = "cleaned"
    /\ last' = Done("stop", NoValue, "begun")
    /\ UNCHANGED <<config, is_started, should_run, pc, busVars>>
    /\ UNCHANGED peerVars

\* A stop that returns after the cleanup, without super().stop().
StopCleanup_NoSuper ==
    /\ stopPc = "idle"
    /\ Cleanup
    /\ last' = Done("stop", NoValue, "ok")
    /\ UNCHANGED <<config, hosts, is_started, should_run, pc, stopPc, busVars>>
    /\ UNCHANGED peerVars

\* DhcpModule.stop, first statement: await self.cleanup()
StopCleanup ==
    /\ stopPc = "idle"
    /\ Cleanup
    /\ stopPc' = "cleaned"
    /\ last' = Done("stop", NoValue, "begun")
    /\ UNCHANGED <<config, hosts, is_started, should_run, pc, busVars>>
    /\ UNCHANGED peerVars

\* DhcpModule.stop, second statement: await super().stop(), up to the wait
\* for the execution context. A no-op on an idle module.
StopBase ==
    /\ stopPc = "cleaned"
    /\ IF is_started
       THEN /\ should_run' = FALSE
            /\ Cleanup
            /\ stopPc' = "joining"
            /\ UNCHANGED last
       ELSE /\ stopPc' = "idle"
            /\ last' = Done("stop", NoValue, "ok")
            /\ UNCHANGED <<should_run, sock>>
    /\ UNCHANGED <<config, hosts, is_started, pc, busVars>>
    /\ UNCHANGED peerVars

\* super().stop() returns once the execution context has exited.
StopJoin ==
    /\ stopPc = "joining"
    /\ pc = "none"
    /\ stopPc' = "idle"
    /\ last' = Done("stop", NoValue, "ok")
    /\ UNCHANGED <<config, hosts, is_started, should_run, sock, pc, busVars>>
    /\ UNCHANGED peerVars

----------------------------------------------------------------------------
\* The Wi-Fi module (WifiWindows) and the calls of its context-owned
\* operation get_access_point_clients.

Min(a, b) == IF a < b THEN a ELSE b

\* The caller's context is not blocked in a dispatched call.
CallerFree == call.st \in {"none", "returned"}

\* A start that registers and resets the client set before super().start().
WifiStart_RegisterFirst ==
    /\ CallerFree
    /\ IF wifi.is_started
       THEN /\ wifi' = [wifi EXCEPT !.notification = "registered",
                                    !.dpapi = "loaded", !.ap_clients = {},
                                    !.heard_run = NeverHeard]
            /\ last' = Done("start", "wifi", "LifecycleError")
       ELSE /\ wifi' = [is_started |-> TRUE, runs |-> wifi.runs + 1,
                        notification |-> "registered", dpapi |-> "loaded",
                        ap_clients |-> {}, published |-> wifi.published,
                        heard |-> wifi.heard, heard_run |-> NeverHeard]
            /\ last' = Done("start", "wifi", "ok")
    /\ UNCHANGED <<dhcpVars, cliVars, busVars, call, codec, wop, ctx>>

\* WifiWindows.start: super().start() raises on a running module; on an idle
\* one the execution context is created, then the notification is registered,
\* the credentials are loaded and the client set is reset.
WifiStart ==
    /\ CallerFree
    /\ IF wifi.is_started
       THEN /\ last' = Done("start", "wifi", "LifecycleError")
            /\ UNCHANGED wifi
       ELSE /\ wifi' = [is_started |-> TRUE, runs |-> wifi.runs + 1,
                        notification |-> "registered", dpapi |-> "loaded",
                        ap_clients |-> {}, published |-> wifi.published,
                        heard |-> wifi.heard, heard_run |-> NeverHeard]
            /\ last' = Done("start", "wifi", "ok")
    /\ UNCHANGED <<dhcpVars, cliVars, busVars, call, codec, wop, ctx>>

\* wifi_start of the command layer: start unless started.
wifi_start ==
    IF ~wifi.is_started
    THEN WifiStart
    ELSE /\ CallerFree
         /\ last' = Done("wifi_start", "wifi", "ok")
         /\ UNCHANGED <<dhcpVars, cliVars, busVars, peerVars>>

\* WifiWindows.stop: _unregister(), then super().stop(), which tears the
\* execution context down when there is one.
WifiStop ==
    /\ CallerFree
    /\ wifi' = [wifi EXCEPT !.notification = NoValue, !.is_started = FALSE,
                            !.runs = 0]
    /\ last' = Done("stop", "wifi", "ok")
    /\ UNCHANGED <<dhcpVars, cliVars, busVars, call, codec, wop, ctx>>

\* The tasks of a queue but `task`.
Without(queue, task) == SelectSeq(queue, LAMBDA t : t # task)

\* A context that begins any task that is scheduled, at once: a pool of
\* threads.
Runnable_AtOnce(task) == task \in Range(ctx.queue)

\* The execution context can begin `task`: no task is running on it and
\* `task` is the one scheduled first.
Runnable(task) ==
    /\ ctx.running = NoValue
    /\ ctx.queue # <<>>
    /\ Head(ctx.queue) = task

\* A wrapper that starts an idle module and dispatches the call to it.
Call_StartsModule(op) ==
    /\ CallerFree
    /\ call' = [st |-> "queued", op |-> op, res |-> NoResult, got |-> NoResult]
    /\ wifi' = IF wifi.is_started THEN wifi
               ELSE [wifi EXCEPT !.is_started = TRUE, !.runs = 1]
    /\ ctx' = [ctx EXCEPT !.queue = Append(@, "call")]
    /\ UNCHANGED <<dhcpVars, cliVars, busVars, last, codec, wop>>

\* module_thread, on the caller's side: the call fails at once on a module
\* that is not running, and is queued on the module's context otherwise.
Call(op) ==
    /\ CallerFree
    /\ IF wifi.is_started
       THEN /\ call' = [st |-> "queued", op |-> op, res |-> NoResult,
                        got |-> NoResult]
            /\ ctx' = [ctx EXCEPT !.queue = Append(@, "call")]
       ELSE /\ call' = [st |-> "returned", op |-> op, res |-> NoResult,
                        got |-> Result("LifecycleError", {})]
            /\ UNCHANGED ctx
    /\ UNCHANGED <<dhcpVars, cliVars, busVars, last, wifi, codec, wop>>

\* The event of a client that joined or left the access point.
WifiAPClientEvent(type, client, n) ==
    [type |-> type, id |-> Min(n, MaxPublish), client |-> client,
     address |-> NoAddr]

\* The awaiters after the broadcasts of one loop over `clients`: `first` is
\* the client the loop meets first.
BroadcastEach(aw, type, clients, first, n) ==
    IF clients = {} THEN aw ELSE Publish(aw, WifiAPClientEvent(type, first, n))

\* A loop that announces every peer of the list as connected, known or not.
ClientEvents_EveryPeer(known, clients) ==
    {<<"WifiAPClientDisconnectedEvent", c>> : c \in known \ clients}
        \cup {<<"WifiAPClientConnectedEvent", c>> : c \in clients}

\* The events the two loops of get_access_point_clients broadcast, as pairs
\* of type and client: known is ap_clients, clients the peers just read.
ClientEvents(known, clients) ==
    {<<"WifiAPClientDisconnectedEvent", c>> : c \in known \ clients}
        \cup {<<"WifiAPClientConnectedEvent", c>> : c \in clients \ known}

\* The type of the event broadcast last for each client, after `events`.
Heard(heard, events) ==
    [c \in MACs |-> IF \E e \in events : e[2] = c
                    THEN (CHOOSE e \in events : e[2] = c)[1]
                    ELSE heard[c]]

\* What get_access_point_clients returns or raises.
ClientsResult(peers, queryOk) ==
    IF queryOk THEN Result("value", peers) ELSE Result("OSError", {})

\* The body of WifiWindows.get_access_point_clients, on the awaiters aw.
\* peers is the peer list of the hosted network; queryOk is FALSE when the
\* query of its status raises.
GetAccessPointClients(aw, peers, queryOk) ==
    IF ~queryOk
    THEN /\ awaiters' = aw
         /\ UNCHANGED <<wifi, nPublished>>
    ELSE LET gone == wifi.ap_clients \ peers
             new == peers \ wifi.ap_clients
         IN  /\ \E g \in gone \cup {NoAddr}, c \in new \cup {NoAddr} :
                   /\ g = NoAddr <=> gone = {}
                   /\ c = NoAddr <=> new = {}
                   /\ awaiters' =
                         BroadcastEach(
                             BroadcastEach(aw,
                                 "WifiAPClientDisconnectedEvent", gone, g,
                                 nPublished + 1),
                             "WifiAPClientConnectedEvent", new, c,
                             nPublished + Cardinality(gone) + 1)
             /\ nPublished' = Min(nPublished + Cardinality(gone)
                                     + Cardinality(new), MaxPublish)
             /\ wifi' = [wifi EXCEPT
                    !.ap_clients = peers,
                    !.published = ClientEvents(wifi.ap_clients, peers),
                    !.heard = Heard(@, ClientEvents(wifi.ap_clients, peers)),
                    !.heard_run =
                        Heard(@, ClientEvents(wifi.ap_clients, peers))]

\* WifiWindows.get_access_point_clients, called by the caller and run on the
\* module's context when its turn comes.
Exec(peers, queryOk) ==
    /\ call.st = "queued"
    /\ Runnable("call")
    /\ GetAccessPointClients(awaiters, peers, queryOk)
    /\ call' = [call EXCEPT !.st = "done",
                            !.res = ClientsResult(peers, queryOk)]
    /\ ctx' = [ctx EXCEPT !.queue = Without(@, "call")]
    /\ UNCHANGED <<dhcpVars, cliVars, last, codec, wop>>

\* A wrapper that hands the caller an empty value when the body raised.
Return_ErrorSwallowed ==
    /\ call.st = "done"
    /\ call' = [call EXCEPT !.st = "returned",
                            !.got = IF call.res.kind = "value" THEN call.res
                                    ELSE Result("value", {})]
    /\ UNCHANGED <<dhcpVars, cliVars, busVars, last, wifi, codec, wop, ctx>>

\* module_thread, back on the caller's side: the caller resumes with what the
\* body returned or raised.
Return ==
    /\ call.st = "done"
    /\ call' = [call EXCEPT !.st = "returned", !.got = call.res]
    /\ UNCHANGED <<dhcpVars, cliVars, busVars, last, wifi, codec, wop, ctx>>

\* The Wi-Fi module under a caller that starts it, stops it and calls its
\* context-owned operation.
NextWifi ==
    \/ WifiStart
    \/ wifi_start
    \/ WifiStop
    \/ Call("get_access_point_clients")
    \/ \E peers \in SUBSET MACs, queryOk \in BOOLEAN : Exec(peers, queryOk)
    \/ Return

SpecWifi == Init /\ [][NextWifi]_vars

----------------------------------------------------------------------------
\* The DHCP codec: the option area of a packet. A value is a sequence of
\* numbers: <<address>> for an IPv4 address, <<seconds, microseconds>> for a
\* duration, the code points of a string, <<n>> for an integer, the bytes of
\* a raw value.

\* DhcpOptionType
SUBNET_MASK == 1
DOMAIN_NAME == 15
INTERFACE_MTU_SIZE == 26
NETBIOS_NODE_TYPE == 46
IP_ADDRESS_LEASE_TIME == 51
MESSAGE_TYPE == 53
RENEW_TIME_VALUE == 58
END == 255

\* Codes outside the catalogue.
UnknownCodes == {200}

\* The declared type of an option code; "raw" for a code outside the catalogue.
OptionKind(code) ==
    CASE code = SUBNET_MASK -> "ip"
      [] code = DOMAIN_NAME -> "str"
      [] code = INTERFACE_MTU_SIZE -> "int16"
      [] code \in {NETBIOS_NODE_TYPE, MESSAGE_TYPE} -> "int8"
      [] code \in {IP_ADDRESS_LEASE_TIME, RENEW_TIME_VALUE} -> "duration"
      [] OTHER -> "raw"

\* The values set for each option: those of the reply of _process_request
\* and one more of the type.
OptionValues(code) ==
    CASE code = SUBNET_MASK -> {<<167772161>>, <<2130706433>>}
      [] code = DOMAIN_NAME -> {<<108, 111, 99, 97, 108>>, <<233, 108>>}
      [] code = INTERFACE_MTU_SIZE -> {<<1500>>}
      [] code = NETBIOS_NODE_TYPE -> {<<8>>}
      [] code = MESSAGE_TYPE -> {<<2>>, <<5>>}
      [] code = IP_ADDRESS_LEASE_TIME -> {<<604800, 0>>}
      [] code = RENEW_TIME_VALUE -> {<<43200, 0>>, <<43200, 500000>>}
      [] OTHER -> {<<0, 255, 128>>}

OptionCodes ==
    {SUBNET_MASK, DOMAIN_NAME, INTERFACE_MTU_SIZE, NETBIOS_NODE_TYPE,
     IP_ADDRESS_LEASE_TIME, MESSAGE_TYPE, RENEW_TIME_VALUE} \cup UnknownCodes

\* n in `width` bytes, least significant byte first.
RECURSIVE LittleEndian(_, _)
LittleEndian(n, width) ==
    IF width = 0 THEN <<>>
    ELSE <<n % 256>> \o LittleEndian(n \div 256, width - 1)

\* n in `width` bytes, network order.
RECURSIVE BigEndian(_, _)
BigEndian(n, width) ==
    IF width = 0 THEN <<>>
    ELSE Append(BigEndian(n \div 256, width - 1), n % 256)

\* The number that bytes in network order stand for.
RECURSIVE FromBigEndian(_)
FromBigEndian(bytes) ==
    IF bytes = <<>> THEN 0
    ELSE FromBigEndian(SubSeq(bytes, 1, Len(bytes) - 1)) * 256
            + bytes[Len(bytes)]

\* UTF-8 of a string of code points below 2048.
RECURSIVE Utf8Encode(_)
Utf8Encode(str) ==
    IF str = <<>> THEN <<>>
    ELSE (IF str[1] < 128 THEN <<str[1]>>
          ELSE <<192 + (str[1] \div 64), 128 + (str[1] % 64)>>)
         \o Utf8Encode(Tail(str))

RECURSIVE Utf8Decode(_)
Utf8Decode(bytes) ==
    IF bytes = <<>> THEN <<>>
    ELSE IF bytes[1] < 128
         THEN <<bytes[1]>> \o Utf8Decode(Tail(bytes))
         ELSE <<(bytes[1] - 192) * 64 + (bytes[2] - 128)>>
                 \o Utf8Decode(Tail(Tail(bytes)))

\* A serializer that writes an IPv4 address in host order.
EncodeValue_HostOrder(kind, value) ==
    CASE kind = "ip" -> LittleEndian(value[1], 4)
      [] kind = "duration" -> BigEndian(value[1], 4)
      [] kind = "str" -> Utf8Encode(value)
      [] kind = "int16" -> BigEndian(value[1], 2)
      [] kind = "int8" -> BigEndian(value[1], 1)
      [] OTHER -> value

\* The bytes of an option value, per the declared type of its code.
EncodeValue(kind, value) ==
    CASE kind = "ip" -> BigEndian(value[1], 4)
      [] kind = "duration" -> BigEndian(value[1], 4)
      [] kind = "str" -> Utf8Encode(value)
      [] kind = "int16" -> BigEndian(value[1], 2)
      [] kind = "int8" -> BigEndian(value[1], 1)
      [] OTHER -> value

\* The value of the bytes of an option, per the declared type of its code.
DecodeValue(kind, bytes) ==
    CASE kind = "ip" -> <<FromBigEndian(bytes)>>
      [] kind = "duration" -> <<FromBigEndian(bytes), 0>>
      [] kind = "str" -> Utf8Decode(bytes)
      [] kind \in {"int16", "int8"} -> <<FromBigEndian(bytes)>>
      [] OTHER -> bytes

\* The smallest code of a non-empty set.
FirstCode(codes) == CHOOSE c \in codes : \A d \in codes : c <= d

\* encode: each option as code, length, bytes; then the end marker.
RECURSIVE EncodeOptions(_, _)
EncodeOptions(table, codes) ==
    IF codes = {} THEN <<END>>
    ELSE LET code == FirstCode(codes)
             bytes == EncodeValue(OptionKind(code), table[code])
         IN  <<code, Len(bytes)>> \o bytes
                \o EncodeOptions(table, codes \ {code})

\* decode: walk the option area from position i up to the end marker.
RECURSIVE DecodeOptions(_, _, _)
DecodeOptions(wire, i, table) ==
    IF i > Len(wire) \/ wire[i] = END THEN table
    ELSE LET code == wire[i]
             length == wire[i + 1]
             bytes == SubSeq(wire, i + 2, i + 1 + length)
             value == DecodeValue(OptionKind(code), bytes)
         IN  DecodeOptions(wire, i + 2 + length,
                 [c \in DOMAIN table \cup {code} |->
                     IF c = code THEN value ELSE table[c]])

\* packet[code] = value
SetOption(code, value) ==
    /\ codec.st = "built"
    /\ codec' = [codec EXCEPT !.table =
                    [c \in DOMAIN codec.table \cup {code} |->
                        IF c = code THEN value ELSE codec.table[c]]]
    /\ UNCHANGED <<dhcpVars, cliVars, busVars, last, wifi, call, wop, ctx>>

\* packet.options_clear()
OptionsClear ==
    /\ codec' = NoPacket
    /\ UNCHANGED <<dhcpVars, cliVars, busVars, last, wifi, call, wop, ctx>>

\* packet.pack()
Pack ==
    /\ codec.st = "built"
    /\ codec' = [codec EXCEPT !.st = "packed",
                    !.wire = EncodeOptions(codec.table, DOMAIN codec.table)]
    /\ UNCHANGED <<dhcpVars, cliVars, busVars, last, wifi, call, wop, ctx>>

\* DhcpPacket.unpack(data), on the bytes of pack()
Unpack ==
    /\ codec.st = "packed"
    /\ codec' = [codec EXCEPT !.st = "unpacked",
                    !.decoded = DecodeOptions(codec.wire, 1, EmptyTable)]
    /\ UNCHANGED <<dhcpVars, cliVars, busVars, last, wifi, call, wop, ctx>>

\* The codec under a caller that builds option tables, packs and unpacks.
NextCodec ==
    \/ \E code \in OptionCodes : \E value \in OptionValues(code) :
          SetOption(code, value)
    \/ OptionsClear
    \/ Pack
    \/ Unpack

SpecCodec == Init /\ [][NextCodec]_vars

----------------------------------------------------------------------------
\* The DHCP module under a caller that reconfigures its runtime fields.
Next ==
    \/ Start
    \/ RunBind
    \/ RunLoopCheck
    \/ \E d \in Datagrams, sendOk \in BOOLEAN : ProcessRequest(d, sendOk)
    \/ RecvClosed
    \/ RunExit
    \/ StopCleanup
    \/ StopBase
    \/ StopJoin
    \/ \E key \in {"ipconfig", "range"} : \E value \in ConfigValues(key) :
          SetAttr(key, value)

Spec == Init /\ [][Next]_vars

\* The pre-run guard under a caller that writes every field, the lease
\* table included, around the lifecycle of the module.
NextAttr ==
    \/ Start
    \/ RunBind
    \/ RunLoopCheck
    \/ RecvClosed
    \/ RunExit
    \/ StopCleanup
    \/ StopBase
    \/ StopJoin
    \/ \E key \in ConfigKeys : \E value \in ConfigValues(key) : SetAttr(key, value)
    \/ \E table \in HostTables : SetHosts(table)

SpecAttr == Init /\ [][NextAttr]_vars

\* The event bus alone: awaiters of any type, publishers of any type.
NextBus ==
    \/ \E a \in Awaiters, type \in EventTypes : AwaitNext(a, type)
    \/ \E a \in Awaiters : Resume(a)
    \/ \E type \in EventTypes : Broadcast(type)

SpecBus == Init /\ [][NextBus]_vars

----------------------------------------------------------------------------
\* Steps, recognised from the variables they change.

\* A step of SetAttr or SetHosts that is not a stuttering step.
AttrStep ==
    /\ last'.op = "setattr"
    /\ UNCHANGED lifeVars
    /\ <<last, config, hosts>>' # <<last, config, hosts>>

\* A step of ProcessRequest.
RequestStep == pc = "recv" /\ sock = "open" /\ pc' # "recv"

\* A step of ProcessRequest on a DISCOVER, REQUEST or INFORM that passed the
\* configuration precondition; last'.mac is the client.
AllocStep ==
    /\ RequestStep
    /\ last'.outcome \in {"replied", "RuntimeError", "TypeError", "OSError"}

\* A step of the bus that publishes an event: the event is last'.events[1].
PublishStep == nPublished' = nPublished + 1

Injective(h) == \A m1, m2 \in DOMAIN h : h[m1] = h[m2] => m1 = m2

\* Every address of the configured range is held by a lease.
RangeFull ==
    /\ config.range # NoRange
    /\ config.range[1] <= config.range[2]
    /\ \A a \in config.range[1] .. config.range[2] : a \in HostValues(hosts)

----------------------------------------------------------------------------
\* C1: an assignment to a PRE_RUN_CONFIG field of a running module raises the
\* configuration-state error and leaves every field as it was.
C1_PreRunWriteRejected ==
    [][(AttrStep /\ is_started /\ last'.key \in PreRunKeys)
        => /\ last'.outcome = "RuntimeError"
           /\ UNCHANGED <<config, hosts>>]_vars

C1_Witness ==
    /\ is_started
    /\ last.op = "setattr" /\ last.key = "port" /\ last.outcome = "RuntimeError"
    /\ config.port = 6767

\* C2: an assignment to a pre-run field of an idle module succeeds, and an
\* assignment to a field outside PRE_RUN_CONFIG succeeds in every lifecycle
\* state; it changes no other configuration field.
C2_OtherWritesSucceed ==
    [][(AttrStep /\ (~is_started \/ last'.key \notin PreRunKeys))
        => /\ last'.outcome = "ok"
           /\ \A k \in ConfigKeys \ {last'.key} : config'[k] = config[k]
           /\ last'.key # "hosts" => hosts' = hosts]_vars

C2_Witness ==
    /\ is_started /\ pc = "recv"
    /\ last.op = "setattr" /\ last.key = "hosts" /\ last.outcome = "ok"
    /\ hosts # EmptyHosts
    /\ config.address # DefaultAddress

\* C3: a MAC that has a lease-table entry keeps it, and every request served
\* for that MAC is answered with the address of the entry.
C3_StickyLease ==
    [][\A m \in DOMAIN hosts :
          /\ m \in DOMAIN hosts' /\ hosts'[m] = hosts[m]
          /\ (RequestStep /\ last'.outcome = "replied" /\ last'.mac = m)
                => last'.addr = hosts[m]]_vars

C3_Witness ==
    /\ last.op = "request" /\ last.outcome = "replied" /\ last.known
    /\ Cardinality(DOMAIN hosts) = MaxMac
    /\ \E m \in DOMAIN hosts : hosts[m] > hosts[last.mac]

\* C4: no two MACs of the lease table hold the same address.
C4_NoSharedAddress == Injective(hosts)

C4_Witness ==
    /\ is_started
    /\ Cardinality(DOMAIN hosts) = MaxMac
    /\ last.op = "request" /\ last.outcome = "replied" /\ ~last.known

\* C5: when every address of the range is leased, a request from a MAC
\* without a lease raises the exhaustion error, is not answered and leaves
\* the lease table unchanged.
C5_Exhaustion ==
    [][(AllocStep /\ RangeFull /\ last'.mac \notin DOMAIN hosts)
        => /\ last'.outcome = "RuntimeError"
           /\ last'.addr = NoAddr
           /\ hosts' = hosts]_vars

C5_Witness ==
    /\ last.op = "request" /\ last.outcome = "RuntimeError"
    /\ last.mac \notin DOMAIN hosts
    /\ Cardinality(DOMAIN hosts) = RangeLen
    /\ RangeFull

\* C6: after a request fails with the exhaustion error the module is still
\* running and its loop goes on to the next datagram.
C6_ExhaustionKeepsServing ==
    [][(RequestStep /\ last'.outcome = "RuntimeError")
        => (pc' = "loop" /\ is_started' /\ should_run')]_vars

\* C7: a served REQUEST or INFORM publishes exactly one lease event, which
\* carries the client MAC and the address the lease table holds for it; a
\* DISCOVER and a request that is not answered publish none.
C7_LeaseEvent ==
    [][RequestStep =>
        IF last'.outcome = "replied" /\ last'.key \in {"REQUEST", "INFORM"}
        THEN /\ Len(last'.events) = 1
             /\ last'.events[1].type = LeaseEvent
             /\ last'.events[1].client = last'.mac
             /\ last'.mac \in DOMAIN hosts'
             /\ last'.events[1].address = hosts'[last'.mac]
        ELSE last'.events = <<>>]_vars

C7_Witness ==
    /\ last.op = "request" /\ last.outcome = "replied" /\ last.key = "INFORM"
    /\ Len(last.events) = 1
    /\ last.events[1].address = RangeLen + 1

\* C8 as stated: when stop returns on a module that was running, the lease
\* table is empty.
C8_ClearedOnStop ==
    [][(stopPc = "joining" /\ stopPc' = "idle") => hosts' = EmptyHosts]_vars

\* C8, amended: stopping and starting the module leave the lease table as
\* it is.
C8_KeptOnStop ==
    [][(stopPc' # stopPc \/ is_started' # is_started) => hosts' = hosts]_vars

C8_Witness ==
    /\ ~is_started /\ stopPc = "idle" /\ pc = "none"
    /\ last.op = "stop" /\ last.outcome = "ok"
    /\ Cardinality(DOMAIN hosts) = MaxMac

\* C9: a publish resolves every awaiter pending for the type of the event,
\* each with that one event instance, and leaves every other awaiter as it is.
C9_PublishResolvesAll ==
    [][PublishStep =>
        \A a \in Awaiters :
            IF awaiters[a].st = "pending" /\ awaiters[a].type = last'.events[1].type
            THEN /\ awaiters'[a].st = "resolved"
                 /\ awaiters'[a].ev = last'.events[1]
                 /\ awaiters'[a].ev.id = nPublished'
            ELSE awaiters'[a] = awaiters[a]]_vars

C9_Witness ==
    \E a1, a2, a3 \in Awaiters :
        /\ a1 # a2
        /\ awaiters[a1].st = "resolved" /\ awaiters[a2].st = "resolved"
        /\ awaiters[a1].ev = awaiters[a2].ev
        /\ awaiters[a3].st = "pending"
        /\ awaiters[a3].reg < awaiters[a1].ev.id

\* C10: registering an awaiter leaves it pending whatever was published
\* before, and a pending awaiter changes only by a publish of its type, made
\* after its registration, that resolves it.
C10_NoBuffering ==
    [][\A a \in Awaiters :
          /\ (awaiters[a].st = "idle" /\ awaiters'[a] # awaiters[a])
                => (awaiters'[a].st = "pending" /\ awaiters'[a].reg = nPublished)
          /\ (awaiters[a].st = "pending" /\ awaiters'[a] # awaiters[a])
                => /\ PublishStep
                   /\ awaiters'[a].st = "resolved"
                   /\ awaiters'[a].ev.type = awaiters[a].type
                   /\ awaiters'[a].ev.id > awaiters[a].reg]_vars

C10_Witness ==
    \E a \in Awaiters :
        /\ awaiters[a].st = "pending"
        /\ nPublished >= 1
        /\ awaiters[a].reg = nPublished
        /\ last.op = "broadcast"
        /\ last.events[1].type = awaiters[a].type

----------------------------------------------------------------------------
\* The DHCP server with callers that await its lease event.

\* The callers that await the lease event.
LeaseAwaiters == {a \in Awaiters : a <= 2}

\* What the server receives: DISCOVER and REQUEST of every client, and the
\* datagrams it discards.
LeaseDatagrams ==
    {d \in Datagrams : Discarded(d) \/ d.mtype \in {"DISCOVER", "REQUEST"}}

NextLease ==
    \/ Start
    \/ RunBind
    \/ RunLoopCheck
    \/ \E d \in LeaseDatagrams, sendOk \in BOOLEAN : ProcessRequest(d, sendOk)
    \/ RunExit
    \/ SetAttr("ipconfig", IpConfig1)
    \/ SetAttr("range", <<1, RangeLen>>)
    \/ \E a \in LeaseAwaiters : AwaitNext(a, LeaseEvent)
    \/ \E a \in LeaseAwaiters : Resume(a)

SpecLease == Init /\ [][NextLease]_vars

\* A step of ProcessRequest that answers a REQUEST.
ServedRequestStep ==
    RequestStep /\ last'.outcome = "replied" /\ last'.key = "REQUEST"

\* C11: every awaiter registered for the lease event before a REQUEST is
\* served is resolved when that REQUEST is served, with an event that carries
\* the MAC of the request and the address it was answered with.
C11_AwaiterGetsServedRequest ==
    [][ServedRequestStep =>
        \A a \in Awaiters :
            (awaiters[a].st = "pending" /\ awaiters[a].type = LeaseEvent)
                => /\ awaiters'[a].st = "resolved"
                   /\ awaiters'[a].ev.type = LeaseEvent
                   /\ awaiters'[a].ev.client = last'.mac
                   /\ awaiters'[a].ev.address = last'.addr
                   /\ awaiters'[a].ev.address = hosts'[last'.mac]]_vars

C11_Witness ==
    /\ last.op = "request" /\ last.outcome = "replied" /\ last.key = "REQUEST"
    /\ last.mac = 2 /\ last.addr = 2
    /\ \A a \in LeaseAwaiters :
          /\ awaiters[a].st = "resolved"
          /\ awaiters[a].ev.client = 2 /\ awaiters[a].ev.address = 2

----------------------------------------------------------------------------
\* Steps of the caller of the Wi-Fi module.

\* A call of WifiWindows.start that is not a stuttering step.
WifiStartStep ==
    /\ CallerFree
    /\ call' = call
    /\ last'.op = "start" /\ last'.key = "wifi"
    /\ <<wifi, last>>' # <<wifi, last>>

\* A call of the context-owned operation, on the caller's side.
CallStep == CallerFree /\ call' # call

\* C12: start on a module that is running raises the lifecycle error and
\* changes nothing: the module stays running on the same execution context,
\* with one run coroutine, its notification and its client set.
C12_StartOnRunningRejected ==
    [][(WifiStartStep /\ wifi.is_started)
        => /\ last'.outcome = "LifecycleError"
           /\ wifi' = wifi
           /\ wifi'.is_started /\ wifi'.runs = 1]_vars

C12_Witness ==
    /\ last.op = "start" /\ last.key = "wifi" /\ last.outcome = "LifecycleError"
    /\ wifi.is_started /\ wifi.runs = 1
    /\ wifi.notification = "registered"
    /\ wifi.ap_clients = MACs

\* C15: a call of a context-owned operation on a module that is not running
\* returns the lifecycle error to the caller at once: the body is not
\* executed (no result, no client set written, nothing published) and the
\* module is not started.
C15_CallOnIdleRejected ==
    [][(CallStep /\ ~wifi.is_started)
        => /\ call'.st = "returned"
           /\ call'.got.kind = "LifecycleError"
           /\ call'.res = NoResult
           /\ wifi' = wifi
           /\ UNCHANGED busVars]_vars

C15_Witness ==
    /\ ~wifi.is_started /\ wifi.runs = 0
    /\ call.st = "returned" /\ call.got.kind = "LifecycleError"
    /\ call.res = NoResult
    /\ wifi.ap_clients = MACs

\* C16: a dispatched call is executed on the context of the running module
\* while the caller does nothing else, and the caller then receives what
\* the body returned or raised, unchanged.
C16_DispatchedCall ==
    [][/\ call.st \in {"queued", "done"} => (wifi.is_started /\ wifi.runs = 1)
       /\ call.st = "queued"
            => /\ call'.st = "done" /\ call'.op = call.op
               /\ call'.res.kind \in {"value", "OSError"}
               /\ call'.res.kind = "value" => wifi'.ap_clients = call'.res.value
               /\ call'.res.kind # "value" => wifi' = wifi
               /\ wifi'.is_started /\ last' = last
       /\ call.st = "done"
            => /\ call'.st = "returned" /\ call'.op = call.op
               /\ call'.got = call.res /\ call'.res = call.res
               /\ wifi' = wifi /\ last' = last]_vars

C16_Witness ==
    /\ call.st = "returned"
    /\ call.got.kind = "OSError" /\ call.got = call.res
    /\ wifi.is_started /\ wifi.ap_clients = MACs

----------------------------------------------------------------------------
\* The lifecycle of the DHCP module, whose run can fail, and of the Wi-Fi
\* module, under callers that start and stop them; one caller awaits the
\* lease event.

\* The datagrams of one client: they are dropped, answered, or make the
\* run fail.
LifeDatagrams ==
    {d \in Datagrams : d.mac = 1 /\ d.mtype \in {"DISCOVER", NoValue}}

NextLife ==
    \/ Start
    \/ RunBind
    \/ RunLoopCheck
    \/ \E d \in LifeDatagrams, sendOk \in BOOLEAN : ProcessRequest(d, sendOk)
    \/ RecvClosed
    \/ RunExit
    \/ StopCleanup
    \/ StopBase
    \/ StopJoin
    \/ SetAttr("ipconfig", IpConfig1)
    \/ SetAttr("range", <<1, RangeLen>>)
    \/ WifiStart
    \/ WifiStop
    \/ AwaitNext(1, LeaseEvent)

SpecLife == Init /\ [][NextLife]_vars

\* DhcpModule.stop is called on an idle module.
IdleStopBegin == stopPc = "idle" /\ stopPc' = "cleaned" /\ ~is_started

\* DhcpModule.stop returns from super().stop() on an idle module.
IdleStopEnd == stopPc = "cleaned" /\ stopPc' = "idle"

\* DhcpModule.stop returns.
StopReturn ==
    /\ last'.op = "stop" /\ last'.key = NoValue /\ last'.outcome = "ok"
    /\ last' # last

\* A call of WifiWindows.stop that is not a stuttering step.
WifiStopStep ==
    /\ last'.op = "stop" /\ last'.key = "wifi"
    /\ <<wifi, last>>' # <<wifi, last>>

\* C13 as stated: a stop of an idle module changes no module state; the
\* socket handle of the DHCP module is None before and after, the Wi-Fi
\* module has no notification to unregister.
C13_StopOnIdleNoOp ==
    [][/\ (IdleStopBegin \/ IdleStopEnd)
            => /\ sock = NoValue /\ sock' = NoValue
               /\ UNCHANGED <<config, hosts, is_started, should_run, pc>>
       /\ (WifiStopStep /\ ~wifi.is_started) => wifi' = wifi]_vars

\* C13, amended: a stop of an idle module raises no error and leaves the
\* module idle with its configuration and lease table; it closes the socket
\* that a run which ended on its own left open, and changes nothing when
\* there is none. A stop of an idle Wi-Fi module changes nothing.
C13_StopOnIdleCloses ==
    [][/\ IdleStopBegin
            => /\ sock' = NoValue
               /\ UNCHANGED <<config, hosts, is_started, should_run, pc>>
       /\ IdleStopEnd
            => /\ last'.outcome = "ok"
               /\ ~is_started' /\ pc' = "none"
               /\ UNCHANGED <<config, hosts, is_started, should_run, pc, sock>>
       /\ (WifiStopStep /\ ~wifi.is_started)
            => /\ last'.outcome = "ok"
               /\ wifi' = wifi /\ wifi.notification = NoValue]_vars

C13_Witness ==
    /\ stopPc = "cleaned" /\ ~is_started /\ pc = "none"
    /\ last = Done("stop", NoValue, "begun")
    /\ sock = NoValue
    /\ hosts # EmptyHosts
    /\ ~wifi.is_started /\ wifi.dpapi = "loaded"

\* C14: a module becomes running only by start and idle only by stop or by
\* the end of a failed run; when stop returns the module is idle and its
\* execution context is gone; a start of an idle module succeeds and runs
\* the module.
C14_Lifecycle ==
    [][/\ (~is_started /\ is_started')
            => /\ last' = Done("start", NoValue, "ok")
               /\ pc = "none" /\ pc' = "bind" /\ should_run'
       /\ (is_started /\ ~is_started')
            => /\ pc \in {"returned", "failed"} /\ pc' = "none"
               /\ pc = "returned" => stopPc # "idle"
       /\ StopReturn => (~is_started' /\ pc' = "none" /\ ~should_run')
       /\ (~wifi.is_started /\ wifi'.is_started)
            => (last' = Done("start", "wifi", "ok") /\ wifi'.runs = 1)
       /\ (wifi.is_started /\ ~wifi'.is_started)
            => (last' = Done("stop", "wifi", "ok") /\ wifi'.runs = 0)
       /\ WifiStopStep => (~wifi'.is_started /\ wifi'.runs = 0)
       /\ (WifiStartStep /\ ~wifi.is_started)
            => (wifi'.is_started /\ last'.outcome = "ok")]_vars

C14_Witness ==
    /\ last = Done("start", NoValue, "ok")
    /\ is_started /\ pc = "bind"
    /\ sock = NoValue
    /\ hosts # EmptyHosts
    /\ wifi.is_started /\ wifi.runs = 1

----------------------------------------------------------------------------
\* Two values of an option are the same: durations to the second, every
\* other type exactly.
SameValue(kind, v1, v2) ==
    IF kind = "duration" THEN v1[1] = v2[1] ELSE v1 = v2

\* C17: the table decoded from the encoding of a packet has the option codes
\* of the original table and, for each, the same value: addresses, integers
\* and strings exactly, durations to the second, and the value of a code
\* outside the catalogue as the same raw bytes.
C17_OptionRoundTrip ==
    codec.st = "unpacked"
        => /\ DOMAIN codec.decoded = DOMAIN codec.table
           /\ \A code \in DOMAIN codec.table :
                 SameValue(OptionKind(code), codec.table[code],
                           codec.decoded[code])

C17_Witness ==
    /\ codec.st = "unpacked"
    /\ DOMAIN codec.table = OptionCodes
    /\ codec.table[SUBNET_MASK] = <<2130706433>>
    /\ codec.table[DOMAIN_NAME] = <<233, 108>>
    /\ codec.table[RENEW_TIME_VALUE] = <<43200, 500000>>
    /\ codec.decoded[RENEW_TIME_VALUE] = <<43200, 0>>
    /\ codec.decoded[200] = <<0, 255, 128>>

----------------------------------------------------------------------------
\* C18: the error raised for a rejected write to a pre-run field names the
\* field that was being written.
C18_ErrorNamesField ==
    [][(AttrStep /\ last'.outcome = "RuntimeError")
        => last'.names = last'.key]_vars

\* C19: a DISCOVER, REQUEST or INFORM that passes the configuration
\* precondition and obtains an address is answered whatever its
\* parameter-request list is, the absent list included, unless sendto fails.
C19_ReplyWhateverParams ==
    [][(AllocStep /\ last'.outcome \notin {"RuntimeError", "OSError"})
        => /\ last'.outcome = "replied"
           /\ pc' = "loop"]_vars

\* C20: a datagram that does not decode, or that is no BOOT_REQUEST, is not
\* answered, changes neither the lease table nor the bus, and the loop of
\* the running module goes on to the next receive.
C20_DiscardedDatagram ==
    [][\A d \in {x \in Datagrams : ~x.valid \/ x.ptype # "BOOT_REQUEST"},
          sendOk \in BOOLEAN :
          ProcessRequest(d, sendOk)
            => /\ last'.outcome \in {"invalid", "ignored"}
               /\ last'.addr = NoAddr /\ last'.events = <<>>
               /\ UNCHANGED <<hosts, busVars, config, sock, should_run>>
               /\ is_started' /\ pc' = "loop"]_vars

C20_Witness ==
    /\ last.op = "request" /\ last.outcome = "ignored"
    /\ pc = "loop" /\ is_started /\ should_run /\ sock = "open"
    /\ config.ipconfig # NoValue /\ config.range # NoRange
    /\ Cardinality(DOMAIN hosts) = 1
    /\ \E a \in Awaiters : awaiters[a].st = "pending"

----------------------------------------------------------------------------
\* The DHCP server under two clients that send requests of every message
\* type, a caller that sets and unsets the two runtime fields the server
\* requires, and a caller that awaits the lease event.

\* The datagrams that decode to a BOOT_REQUEST.
ServeDatagrams == {d \in Datagrams : d.mac <= 2 /\ ~Discarded(d)}

NextServe ==
    \/ Start
    \/ RunBind
    \/ RunLoopCheck
    \/ \E d \in ServeDatagrams, sendOk \in BOOLEAN : ProcessRequest(d, sendOk)
    \/ RunExit
    \/ \E value \in ConfigValues("ipconfig") : SetAttr("ipconfig", value)
    \/ \E value \in {NoRange, <<1, RangeLen>>} : SetAttr("range", value)
    \/ AwaitNext(1, LeaseEvent)

SpecServe == Init /\ [][NextServe]_vars

\* A step that sends nothing, allocates nothing and publishes nothing, after
\* which the loop goes on.
NothingServed ==
    /\ last'.addr = NoAddr /\ last'.reply = NoReply
    /\ last'.effects = <<>> /\ last'.events = <<>>
    /\ UNCHANGED <<hosts, busVars>>
    /\ pc' = "loop" /\ is_started' /\ should_run'

\* C21: a BOOT_REQUEST whose message type is none of DISCOVER, REQUEST and
\* INFORM, the packet without a message-type option included, is dropped: no
\* address is allocated, no reply is sent and no event is published.
C21_UnhandledDropped ==
    [][\A d \in {x \in ServeDatagrams : x.mtype \notin ServedTypes},
          sendOk \in BOOLEAN :
          ProcessRequest(d, sendOk)
            => (last'.outcome = "unhandled" /\ NothingServed)]_vars

C21_Witness ==
    /\ last.op = "request" /\ last.outcome = "unhandled"
    /\ pc = "loop" /\ is_started /\ sock = "open"
    /\ config.ipconfig # NoValue /\ config.range # NoRange
    /\ Cardinality(DOMAIN hosts) = 1
    /\ awaiters[1].st = "pending"

\* C22: while the IP configuration or the lease range is unset, every
\* DISCOVER, REQUEST and INFORM is refused: no reply, no lease-table entry, no
\* event, and the module keeps running; once both fields are set, such a
\* request (with its parameter-request list, and a sendto that succeeds) is
\* answered with the address of its lease.
C22_RefusedWhileUnconfigured ==
    [][\A d \in {x \in ServeDatagrams : x.mtype \in ServedTypes},
          sendOk \in BOOLEAN :
          ProcessRequest(d, sendOk)
            => /\ (config.ipconfig = NoValue \/ config.range = NoRange)
                    => /\ last'.outcome \in {"noconfig", "norange"}
                       /\ NothingServed
               /\ (/\ config.ipconfig # NoValue /\ config.range # NoRange
                   /\ d.params # NoValue /\ sendOk)
                    => /\ last'.outcome = "replied"
                       /\ last'.reply.yiaddr = hosts'[d.mac]
                       /\ pc' = "loop"]_vars

C22_Witness ==
    /\ last.op = "request" /\ last.outcome = "noconfig"
    /\ pc = "loop" /\ is_started /\ should_run /\ sock = "open"
    /\ config.ipconfig = NoValue /\ config.range # NoRange
    /\ Cardinality(DOMAIN hosts) = 1
    /\ awaiters[1].st = "pending"

\* C23: every datagram the server sends is a BOOT_REPLY to the broadcast
\* address, with message type OFFER when the request was a DISCOVER and ACK
\* when it was a REQUEST or an INFORM, the MAC of the request, the lease-table
\* address of that MAC as your-IP, and the configured address of the module
\* as server-IP and as server identifier.
C23_ReplyContents ==
    [][\A d \in ServeDatagrams, sendOk \in BOOLEAN :
          (ProcessRequest(d, sendOk) /\ last'.reply # NoReply)
            => /\ d.mtype \in ServedTypes
               /\ last'.reply.ptype = "BOOT_REPLY"
               /\ d.mtype = "DISCOVER" => last'.reply.mtype = "OFFER"
               /\ d.mtype \in {"REQUEST", "INFORM"} => last'.reply.mtype = "ACK"
               /\ last'.reply.mac = d.mac
               /\ d.mac \in DOMAIN hosts'
               /\ last'.reply.yiaddr = hosts'[d.mac]
               /\ config.ipconfig # NoValue
               /\ last'.reply.siaddr = config.ipconfig
               /\ last'.reply.server_id = config.ipconfig
               /\ last'.reply.to = "255.255.255.255:68"]_vars

C23_Witness ==
    /\ last.op = "request" /\ last.outcome = "replied" /\ last.key = "DISCOVER"
    /\ last.reply.ptype = "BOOT_REPLY" /\ last.reply.mtype = "OFFER"
    /\ last.reply.mac = 2 /\ last.reply.yiaddr = 2 /\ hosts[2] = 2
    /\ last.reply.siaddr = IpConfig1 /\ last.reply.server_id = IpConfig1
    /\ last.known

\* C24: the lease event of a served REQUEST or INFORM is published after
\* the reply was sent to the broadcast address, and a request whose reply
\* was not sent publishes no lease event.
C24_ReplyBeforeEvent ==
    [][RequestStep
        => /\ (last'.events # <<>> \/ busVars' # busVars)
                => /\ last'.key \in {"REQUEST", "INFORM"}
                   /\ last'.reply # NoReply
                   /\ last'.reply.to = "255.255.255.255:68"
                   /\ last'.effects = <<"sendto", "broadcast">>
                   /\ last'.events = <<DhcpLeaseEvent(last'.mac, last'.addr)>>
           /\ last'.reply = NoReply
                => /\ last'.events = <<>>
                   /\ "broadcast" \notin Range(last'.effects)
                   /\ UNCHANGED busVars]_vars

C24_Witness ==
    /\ last.op = "request" /\ last.outcome = "replied" /\ last.key = "INFORM"
    /\ last.effects = <<"sendto", "broadcast">>
    /\ last.reply.mtype = "ACK" /\ last.reply.yiaddr = 2
    /\ Len(last.events) = 1 /\ last.events[1].address = 2
    /\ awaiters[1].st = "resolved" /\ awaiters[1].ev = last.events[1]

----------------------------------------------------------------------------
\* C25: when stop returns on the DHCP module, the socket is closed and the
\* socket handle is None, however the steps of stop interleave with the run
\* coroutine.
C25_SocketClosedAfterStop ==
    [][StopReturn => sock' = NoValue]_vars

\* C26: stop keeps the stated order: the should-run flag is already cleared
\* when cleanup closes the socket of the module, and the module is idle again
\* only once its execution context has exited.
C26_StopOrder ==
    [][/\ (sock = "open" /\ sock' = NoValue) => ~should_run
       /\ (is_started /\ ~is_started') => pc \in {"returned", "failed"}
       /\ StopReturn => (pc' = "none" /\ ~is_started')]_vars

\* A step of the run coroutine, on the execution context of the module:
\* each moves the coroutine on.
ModuleContextStep == pc \in {"bind", "loop", "recv"} /\ pc' # pc

\* C27: while the DHCP module is running and its loop may use them, the lease
\* table and the socket handle change only by steps of the module's own
\* execution context, never by a step of the caller, stop and its cleanup
\* included.
C27_OwnContextOnly ==
    [][(/\ is_started /\ pc \in {"bind", "loop", "recv"}
        /\ <<hosts, sock>>' # <<hosts, sock>>)
        => ModuleContextStep]_vars

----------------------------------------------------------------------------
\* The two modules and their callers, with an execution context that does
\* end once its run coroutine has returned or raised.
SpecLifeFair == SpecLife /\ WF_vars(RunExit)

\* C28: an exception that leaves the run coroutine of the DHCP module ends
\* the execution context of that module only: the module becomes idle
\* (is_started false), while the Wi-Fi module, the caller's calls and the
\* configuration stay as they are.
C28_FailedRunStops ==
    /\ [][/\ (pc # "failed" /\ pc' = "failed")
               => /\ is_started
                  /\ UNCHANGED <<wifi, call, config, stopPc, is_started>>
          /\ (pc = "failed" /\ pc' # pc)
               => /\ pc' = "none" /\ ~is_started' /\ ~should_run'
                  /\ UNCHANGED <<wifi, call, config, hosts, stopPc, busVars>>
         ]_vars
    /\ (pc = "failed") ~> (pc = "none" /\ ~is_started)

C28_Witness ==
    /\ pc = "none" /\ ~is_started /\ stopPc = "idle"
    /\ last.op = "request" /\ last.outcome = "TypeError"
    /\ sock = "open"
    /\ wifi.is_started /\ wifi.runs = 1 /\ wifi.notification = "registered"

----------------------------------------------------------------------------
\* The operations of WifiWindows that wait for a completion event, the
\* notification callback that publishes it from a thread of the system, and
\* the tasks of the module's execution context.

WaitingOps == {"scan_networks", "start_station", "stop_station",
               "start_access_point", "stop_access_point"}

\* The event an operation waits for.
CompletionEvent(op) ==
    CASE op = "scan_networks" -> "WifiScanCompleteEvent"
      [] op = "start_station" -> "WifiConnectedEvent"
      [] op = "stop_station" -> "WifiDisconnectedEvent"
      [] op = "start_access_point" -> "WifiAPStartedEvent"
      [] op = "stop_access_point" -> "WifiAPStoppedEvent"

\* The steps of an operation, in program order. active: the station is
\* connected (start_station) or the hosted network is active (the access
\* point operations) when the operation is called. The settings of the
\* hosted network are those already written.
\*   trigger   the request to the system that will cause the event
\*   register  <Event>.any(): the waiter is registered on the bus
\*   await     the coroutine is suspended until the waiter is resolved
\*   check     get_station_state: the operation ends when not connected
\*   broadcast the operation publishes the event itself
\*   clients   get_access_point_clients
\*   raise     stop_station() called without its argument
Body(op, active) ==
    CASE op = "scan_networks" -> <<"trigger", "register", "await">>
      [] op = "start_station" ->
            IF active THEN <<"raise">>
            ELSE <<"trigger", "register", "await">>
      [] op = "stop_station" -> <<"trigger", "check", "register", "await">>
      [] op = "start_access_point" ->
            IF active THEN <<"broadcast", "clients">>
            ELSE <<"register", "trigger", "await", "clients">>
      [] op = "stop_access_point" ->
            IF active THEN <<"register", "trigger", "await">> ELSE <<>>

\* The waiter of the operation on the bus.
OpWaiter == 1

\* module_thread, on the side of the caller of a waiting operation.
OpCall(op, active) ==
    /\ wop.st \in {"none", "returned"}
    /\ IF wifi.is_started
       THEN /\ wop' = [st |-> "queued", op |-> op, body |-> Body(op, active),
                       notify |-> "none", res |-> NoValue]
            /\ ctx' = [ctx EXCEPT !.queue = Append(@, "op")]
       ELSE /\ wop' = [st |-> "returned", op |-> op, body |-> <<>>,
                       notify |-> "none", res |-> "LifecycleError"]
            /\ UNCHANGED ctx
    /\ UNCHANGED <<dhcpVars, cliVars, busVars, last, wifi, call, codec>>

\* The context begins the operation.
OpBegin ==
    /\ wop.st = "queued"
    /\ Runnable("op")
    /\ wop' = [wop EXCEPT !.st = "running"]
    /\ ctx' = [queue |-> Without(ctx.queue, "op"), running |-> "op"]
    /\ UNCHANGED <<dhcpVars, cliVars, busVars, last, wifi, call, codec>>

\* The next step of the operation that is running.
OpStep(peers, queryOk) ==
    /\ wop.st = "running"
    /\ wop.body # <<>>
    /\ LET step == Head(wop.body)
           rest == Tail(wop.body)
           type == CompletionEvent(wop.op)
       IN  CASE step = "trigger" ->
                  /\ wop' = [wop EXCEPT !.body = rest, !.notify = "pending"]
                  /\ UNCHANGED <<busVars, wifi, ctx>>
             [] step = "register" ->
                  /\ awaiters' = [awaiters EXCEPT ![OpWaiter] =
                                    [st |-> "pending", type |-> type,
                                     reg |-> nPublished, ev |-> NoEvent]]
                  /\ wop' = [wop EXCEPT !.body = rest]
                  /\ UNCHANGED <<nPublished, wifi, ctx>>
             [] step = "await" ->
                  /\ wop' = [wop EXCEPT !.st = "waiting", !.body = rest]
                  /\ ctx' = [ctx EXCEPT !.running = NoValue]
                  /\ UNCHANGED <<busVars, wifi>>
             [] step = "check" ->
                  /\ wop' = [wop EXCEPT !.body = IF wop.notify = "pending"
                                                 THEN rest ELSE <<>>]
                  /\ UNCHANGED <<busVars, wifi, ctx>>
             [] step = "broadcast" ->
                  /\ awaiters' = Publish(awaiters, Event(type, NoAddr, NoAddr))
                  /\ nPublished' = NextId
                  /\ wop' = [wop EXCEPT !.body = rest]
                  /\ UNCHANGED <<wifi, ctx>>
             [] step = "clients" ->
                  /\ GetAccessPointClients(awaiters, peers, queryOk)
                  /\ wop' = [wop EXCEPT !.body = <<>>,
                                        !.res = IF queryOk THEN @ ELSE "OSError"]
                  /\ UNCHANGED ctx
             [] step = "raise" ->
                  /\ wop' = [wop EXCEPT !.body = <<>>, !.res = "TypeError"]
                  /\ UNCHANGED <<busVars, wifi, ctx>>
    /\ UNCHANGED <<dhcpVars, cliVars, last, call, codec>>

\* The waiter was resolved: the context goes on with the operation when no
\* other task is running.
OpResume ==
    /\ wop.st = "waiting"
    /\ awaiters[OpWaiter].st = "resolved"
    /\ ctx.running = NoValue
    /\ wop' = [wop EXCEPT !.st = "running"]
    /\ ctx' = [ctx EXCEPT !.running = "op"]
    /\ awaiters' = [awaiters EXCEPT ![OpWaiter] = IdleAwaiter]
    /\ UNCHANGED <<dhcpVars, cliVars, nPublished, last, wifi, call, codec>>

\* The operation ends; its caller resumes.
OpReturn ==
    /\ wop.st = "running"
    /\ wop.body = <<>>
    /\ wop' = [wop EXCEPT !.st = "returned",
                          !.res = IF @ = NoValue THEN "ok" ELSE @]
    /\ ctx' = [ctx EXCEPT !.running = NoValue]
    /\ UNCHANGED <<dhcpVars, cliVars, busVars, last, wifi, call, codec>>

\* WifiWindows.on_notification, on a thread of the system: the notification
\* that the request of the operation caused; the callback publishes the
\* completion event.
OnNotification ==
    /\ wop.notify = "pending"
    /\ wifi.notification = "registered"
    /\ awaiters' = Publish(awaiters,
                           Event(CompletionEvent(wop.op), NoAddr, NoAddr))
    /\ nPublished' = NextId
    /\ wop' = [wop EXCEPT !.notify = "delivered"]
    /\ UNCHANGED <<dhcpVars, cliVars, last, wifi, call, codec, ctx>>

\* WifiWindows.on_notification, peer state change: the callback schedules
\* get_access_point_clients on the module's context.
OnPeerChange ==
    /\ wifi.notification = "registered"
    /\ "peers" \notin Range(ctx.queue)
    /\ ctx' = [ctx EXCEPT !.queue = Append(@, "peers")]
    /\ UNCHANGED <<dhcpVars, cliVars, busVars, last, wifi, call, codec, wop>>

\* get_access_point_clients as scheduled by the callback.
ExecPeers(peers, queryOk) ==
    /\ Runnable("peers")
    /\ GetAccessPointClients(awaiters, peers, queryOk)
    /\ ctx' = [ctx EXCEPT !.queue = Without(@, "peers")]
    /\ UNCHANGED <<dhcpVars, cliVars, last, call, codec, wop>>

\* The peer lists of the hosted network.
CtxPeers == {{}, {1}}

NextCtx ==
    \/ WifiStart
    \/ Call("get_access_point_clients")
    \/ \E peers \in CtxPeers, queryOk \in BOOLEAN : Exec(peers, queryOk)
    \/ Return
    \/ \E op \in WaitingOps, active \in BOOLEAN : OpCall(op, active)
    \/ OpBegin
    \/ \E peers \in CtxPeers, queryOk \in BOOLEAN : OpStep(peers, queryOk)
    \/ OpResume
    \/ OpReturn
    \/ OnNotification
    \/ OnPeerChange
    \/ \E peers \in CtxPeers, queryOk \in BOOLEAN : ExecPeers(peers, queryOk)

SpecCtx == Init /\ [][NextCtx]_vars

\* The tasks of the Wi-Fi module's context: the caller's call, the waiting
\* operation, the call scheduled by the notification callback.
CtxTasks == {"call", "op", "peers"}

\* A task leaves the queue of the context: it begins.
Begins(task) == task \in Range(ctx.queue) /\ task \notin Range(ctx.queue')

\* C29: on the execution context of a module at most one task executes at
\* any time, and tasks begin in the order in which they were scheduled: a
\* task begins only when none is running and it is the first of the queue, a
\* newly scheduled task goes to the end of the queue, the steps of the
\* operation are made only while it is the running task, and the body of
\* get_access_point_clients runs only when no other task is running.
C29_OneAtATime ==
    /\ [][/\ \A task \in CtxTasks :
                Begins(task)
                  => /\ ctx.running = NoValue
                     /\ task = Head(ctx.queue)
                     /\ ctx.queue' = Tail(ctx.queue)
          /\ (ctx.queue' # ctx.queue /\ \A task \in CtxTasks : ~Begins(task))
                => \E task \in CtxTasks : ctx.queue' = Append(ctx.queue, task)
          /\ (wop.st = "running" /\ wop' # wop) => ctx.running = "op"
          /\ (wifi'.ap_clients # wifi.ap_clients /\ wifi.is_started)
                => \/ ctx.running = NoValue
                   \/ (ctx.running = "op" /\ Head(wop.body) = "clients")
          /\ (call.st = "queued" /\ call'.st = "done")
                => ctx.running = NoValue
         ]_vars
    /\ [](ctx.running = "op" <=> wop.st = "running")
    /\ [](ctx.running \in {NoValue, "op"})

C29_Witness ==
    /\ ctx.running = "op" /\ wop.st = "running"
    /\ wop.op = "start_access_point" /\ wop.body = <<"clients">>
    /\ ctx.queue = <<"peers", "call">>
    /\ call.st = "queued"
    /\ wifi.ap_clients = {1}

\* The completion event was published and the operation, which has still to
\* wait for it, did not receive it.
LostCompletion ==
    /\ wop.notify = "delivered"
    /\ awaiters[OpWaiter].st # "resolved"
    /\ \/ wop.st = "waiting"
       \/ wop.st = "running" /\ "await" \in Range(wop.body)

\* C30: every operation that waits for a completion event has its waiter
\* registered when it makes the request that causes the event, so the event
\* that the notification callback publishes at any moment after the request
\* reaches the operation.
C30_WaiterBeforeTrigger ==
    /\ [][(wop.notify = "none" /\ wop'.notify = "pending")
            => /\ awaiters[OpWaiter].st = "pending"
               /\ awaiters[OpWaiter].type = CompletionEvent(wop.op)]_vars
    /\ []~LostCompletion

----------------------------------------------------------------------------
\* The lease allocator under a caller that assigns any pair of addresses to
\* the range field and any table to the hosts field.

\* The pairs a caller can assign to range: start and end in any order.
AnyRanges == (1 .. RangeLen + 1) \X (1 .. RangeLen + 1)

\* Requests that are answered when an address is found.
AllocDatagrams ==
    {d \in ServeDatagrams : d.mtype = "DISCOVER" /\ d.params = "listed"}

NextAlloc ==
    \/ Start
    \/ RunBind
    \/ RunLoopCheck
    \/ \E d \in AllocDatagrams : ProcessRequest(d, TRUE)
    \/ RunExit
    \/ SetAttr("ipconfig", IpConfig1)
    \/ \E value \in AnyRanges : SetAttr("range", value)
    \/ \E table \in HostTables : SetHosts(table)

SpecAlloc == Init /\ [][NextAlloc]_vars

\* C31: every address that a request adds to the lease table lies in the
\* configured range, start and end included, whatever pair the range field
\* holds and whatever the table held before.
C31_AssignedInRange ==
    [][RequestStep
        => \A m \in DOMAIN hosts' \ DOMAIN hosts :
              /\ config.range[1] <= hosts'[m]
              /\ hosts'[m] <= config.range[2]]_vars

----------------------------------------------------------------------------
\* The client events of the access point over stop/start cycles of the
\* Wi-Fi module (SpecWifi).

\* A call of get_access_point_clients ran to its end on the module's context.
ClientsStep ==
    /\ call.st = "queued"
    /\ call'.st = "done"
    /\ call'.res.kind = "value"

\* The events of one call continue the alternation recorded in `heard`: a
\* connected event for a client whose last event was not a connected one, a
\* disconnected event for a client whose last event was a connected one.
Alternates(heard, events) ==
    \A e \in events :
        IF e[1] = "WifiAPClientConnectedEvent"
        THEN heard[e[2]] # "WifiAPClientConnectedEvent"
        ELSE heard[e[2]] = "WifiAPClientConnectedEvent"

\* The call leaves ap_clients equal to the peers read and broadcasts a
\* connected event for exactly the new peers, a disconnected event for
\* exactly the peers gone.
ExactEvents ==
    LET peers == call'.res.value
    IN  /\ wifi'.ap_clients = peers
        /\ \A c \in MACs :
              /\ <<"WifiAPClientConnectedEvent", c>> \in wifi'.published
                    <=> (c \in peers /\ c \notin wifi.ap_clients)
              /\ <<"WifiAPClientDisconnectedEvent", c>> \in wifi'.published
                    <=> (c \in wifi.ap_clients /\ c \notin peers)

----------------------------------------------------------------------------
\* Strings of the command line: sequences of characters, with the string
\* methods of Python the command layer uses. Positions count from 0.

\* The strings over `chars` of up to n characters.
Strings(chars, n) == UNION {[1 .. k -> chars] : k \in 0 .. n}

\* str.find(" ", start).
Find(str, start) ==
    LET hits == {i \in start .. Len(str) - 1 : str[i + 1] = " "}
    IN  IF hits = {} THEN -1 ELSE CHOOSE i \in hits : \A j \in hits : i <= j

\* str.rfind(" ", start, end).
RFind(str, start, end) ==
    LET hits == {i \in start .. Min(end, Len(str)) - 1 : str[i + 1] = " "}
    IN  IF hits = {} THEN -1 ELSE CHOOSE i \in hits : \A j \in hits : i >= j

\* str[start:end].
Slice(str, start, end) == SubSeq(str, start + 1, Min(end, Len(str)))

RECURSIVE LStrip(_)
LStrip(str) ==
    IF str # <<>> /\ Head(str) = " " THEN LStrip(Tail(str)) ELSE str

RECURSIVE RStrip(_)
RStrip(str) ==
    IF str # <<>> /\ str[Len(str)] = " "
    THEN RStrip(SubSeq(str, 1, Len(str) - 1)) ELSE str

\* str.strip().
Strip(str) == RStrip(LStrip(str))

\* str.partition(" "): the text before the first space and the text after.
Partition(str) ==
    LET i == Find(str, 0)
    IN  IF i = -1 THEN [cmd |-> str, args |-> <<>>]
        ELSE [cmd |-> Slice(str, 0, i), args |-> Slice(str, i + 1, Len(str))]

----------------------------------------------------------------------------
\* The command dispatcher (cli/command.py).

Help == <<"h", "e", "l", "p">>
Exit == <<"e", "x", "i", "t">>
ConfigCmd == <<"c", "o", "n", "f", "i", "g">>

\* The names of COMMANDS.
COMMANDS == {Help, Exit, ConfigCmd}

\* ALIASES.
ALIASES ==
    [a \in {<<"?">>, <<"q">>, <<"q", "u", "i", "t">>, <<"c", "o", "n", "f">>,
            <<"c", "f", "g">>} |->
        IF a = <<"?">> THEN Help
        ELSE IF a \in {<<"q">>, <<"q", "u", "i", "t">>} THEN Exit
        ELSE ConfigCmd]

\* The longest command line typed.
MaxCommand == 4

\* The characters of a command line: an alias, a letter that begins no
\* command, the space and the quote.
CommandChars == {"?", "z", " ", "'"}
CommandLines == Strings(CommandChars, MaxCommand)

\* How the body of a command ends: click's main() leaves by SystemExit with
\* an exit code, the exit command by SystemExit(cli), a failing body by an
\* exception.
Bodies == {"SystemExit(code)", "SystemExit(cli)", "Exception", "returned"}

\* shlex.split(args) returns: every quote of args is closed. It raises
\* ValueError otherwise.
Tokenisable(args) ==
    Cardinality({i \in 1 .. Len(args) : args[i] = "'"}) % 2 = 0

\* What run_command leaves behind: the modules imported, how the body ended,
\* what run_command returned or raised, the message logged.
Ran(imported, body, outcome, log) ==
    [imported |-> imported, body |-> body, outcome |-> outcome, log |-> log]

\* What run_command(line) does, with get_command and get_module: importOk is FALSE when
\* the import of the command's module raises, hasCli is FALSE for a module
\* without a CLI, body is how cli.main ends.
RunCommand(line, importOk, hasCli, body) ==
    LET part == Partition(Strip(line))
        cmd == IF part.cmd \in DOMAIN ALIASES THEN ALIASES[part.cmd]
               ELSE part.cmd
        imported == shell.imported \cup {cmd}
    IN  shell' =
              IF part.cmd = <<>>
              THEN Ran(shell.imported, NoValue, "returned", <<>>)
              ELSE IF cmd \notin COMMANDS
              THEN Ran(shell.imported, NoValue, "returned",
                       <<"No such command", cmd>>)
              ELSE IF cmd \notin shell.imported /\ ~importOk
              THEN Ran(shell.imported, NoValue, "returned",
                       <<"Module import failed">>)
              ELSE IF ~hasCli
              THEN Ran(imported, NoValue, "returned",
                       <<"does not have a CLI", cmd>>)
              ELSE IF ~Tokenisable(part.args)
              THEN Ran(imported, NoValue, "ValueError", <<>>)
              ELSE CASE body = "SystemExit(cli)" ->
                          Ran(imported, body, "SystemExit", <<>>)
                     [] body = "Exception" ->
                          Ran(imported, body, "returned",
                              <<"Command invocation failed">>)
                     [] OTHER ->
                          Ran(imported, body, "returned", <<>>)

\* A command line handed to run_command.
run_command(line, importOk, hasCli, body) ==
    /\ RunCommand(line, importOk, hasCli, body)
    /\ UNCHANGED <<moduleVars, input, network, logger>>

NextShell ==
    \E line \in CommandLines, importOk \in BOOLEAN, hasCli \in BOOLEAN,
       body \in Bodies : run_command(line, importOk, hasCli, body)

SpecShell == Init /\ [][NextShell]_vars

\* C34: run_command lets no exception escape for any input line: unknown
\* commands, failed imports, argument strings that cannot be tokenised and
\* failing bodies are logged and swallowed; only a SystemExit that the
\* command itself requested propagates.
C34_NothingEscapes ==
    \/ shell.outcome \in {NoValue, "returned"}
    \/ shell.outcome = "SystemExit" /\ shell.body = "SystemExit(cli)"

----------------------------------------------------------------------------
\* The escape parser of the input window (InputWindow.handle_escape). A
\* character is its code point; a key that curses delivers as an integer is
\* kept apart from the characters.

ESC == 27
SS2 == 78
SS3 == 79
DCS == 80
CSI == 91
ST == 92
OSC == 93
DEL == 127
KEY_RESIZE == 410

\* Keycodes.MAPPING of the linux platform: the escape codes and characters
\* that stand for a key.
MAPPING ==
    {<<ESC, CSI, 65>>, <<ESC, CSI, 66>>, <<ESC, CSI, 68>>, <<ESC, CSI, 67>>,
     <<DEL>>, <<8>>, <<ESC, CSI, 51, 126>>, <<ESC, DEL>>, <<ESC, 8>>,
     <<ESC, CSI, 49, 126>>, <<ESC, CSI, 52, 126>>, <<ESC, SS3, 68>>,
     <<ESC, SS3, 67>>, <<ESC, ESC, CSI, 68>>, <<ESC, ESC, CSI, 67>>,
     <<ESC, ESC, CSI, 51, 126>>, <<ESC, CSI, 72>>, <<ESC, CSI, 70>>,
     <<ESC, CSI, 49, 59, 53, 68>>, <<ESC, CSI, 49, 59, 53, 67>>,
     <<ESC, CSI, 49, 59, 51, 68>>, <<ESC, CSI, 49, 59, 51, 67>>}

\* The longest escape code accumulated.
MaxCode == 4

\* What get_wch delivers: the characters ESC, O, [, N, A, D, a, 3, ~ and
\* DEL, and the integer key KEY_RESIZE.
WideChars ==
    {[str |-> TRUE, ord |-> c] :
        c \in {ESC, SS3, CSI, SS2, 65, 68, 97, 51, 126, DEL}}
        \cup {[str |-> FALSE, ord |-> KEY_RESIZE]}

\* The state a character leaves the parser in, by the match statement of
\* handle_escape; "return" stands for the return of the character itself.
Matched(state, ch) ==
    IF ch = ESC THEN "ESCAPE"
    ELSE IF state = "NONE" THEN "return"
    ELSE IF state = "ESCAPE" /\ ch \in 64 .. 95
    THEN IF ch \in {SS2, DCS, ST, OSC} THEN "NONE"
         ELSE IF ch = SS3 THEN "FE_SS3"
         ELSE IF ch = CSI THEN "FE_CSI"
         ELSE state
    ELSE IF state = "FE_SS3" THEN "NONE"
    ELSE IF state = "FE_CSI" /\ ch \notin 32 .. 63 THEN "NONE"
    ELSE state

\* InputWindow.handle_escape(ch) on the window inp: out is what it returns,
\* <<>> for None; error names the exception it raises.
Escape(inp, key) ==
    LET matched == Matched(inp.escape_state, key.ord)
        code == Append(inp.escape_code, key.ord)
        state == IF code \in MAPPING THEN "NONE" ELSE matched
    IN  IF matched = "return"
        THEN [inp EXCEPT !.out = <<key.ord>>, !.error = NoValue]
        ELSE IF ~key.str
        THEN [inp EXCEPT !.escape_state = matched, !.out = <<>>,
                         !.error = "TypeError"]
        ELSE IF state = "NONE"
        THEN [inp EXCEPT !.escape_state = state, !.escape_code = <<>>,
                         !.out = code, !.error = NoValue]
        ELSE [inp EXCEPT !.escape_state = state, !.escape_code = code,
                         !.out = <<>>, !.error = NoValue]

\* The input loop hands one character to handle_escape.
HandleEscape(key) ==
    /\ Len(input.escape_code) < MaxCode
    /\ input' = Escape(input, key)
    /\ UNCHANGED <<moduleVars, shell, network, logger>>

NextEscape == \E key \in WideChars : HandleEscape(key)

SpecEscape == Init /\ [][NextEscape]_vars

\* C35: an escape sequence always ends: after ESC, any following character
\* that does not open an SS3 or CSI sequence makes handle_escape return the
\* accumulated code, with escape_state back at NONE and escape_code empty.
C35_EscapeEnds ==
    [][\A key \in WideChars :
          (/\ input.escape_state = "ESCAPE"
           /\ input.escape_code # <<>>
           /\ input.escape_code[Len(input.escape_code)] = ESC
           /\ key.ord \notin {SS3, CSI}
           /\ HandleEscape(key))
          => /\ input'.escape_state = "NONE"
             /\ input'.escape_code = <<>>
             /\ input'.out = Append(input.escape_code, key.ord)]_vars

----------------------------------------------------------------------------
\* The line editor of the input window (InputWindow.handle_keypress).

\* The most characters the lines of the window hold when one more is typed.
MaxText == 3

\* The number of characters in the lines of the window.
RECURSIVE TextLen(_)
TextLen(lines) ==
    IF lines = <<>> THEN 0 ELSE Len(Head(lines)) + TextLen(Tail(lines))

\* The characters typed into a line.
LineChars == {"a", " "}

\* The keys of handle_keypress, after Keycodes.MAPPING: Enter is "\n".
MoveKeys == {"KEY_UP", "KEY_DOWN", "KEY_LEFT", "KEY_RIGHT", "KEY_HOME",
             "KEY_END", "CTL_LEFT", "CTL_RIGHT"}
CutKeys == {"CTL_BKSP", "CTL_DEL", "KEY_BACKSPACE", "KEY_DC"}
Keys == {"Enter", "Ctrl+C"} \cup MoveKeys \cup CutKeys \cup LineChars

\* What a seek that fails leaves in place of a position.
IndexError == -1
NeverReturns == -2

\* line[i], or NoValue where Python raises IndexError.
At(line, i) ==
    LET k == IF i < 0 THEN i + Len(line) ELSE i
    IN  IF k \in 0 .. Len(line) - 1 THEN line[k + 1] ELSE NoValue

\* A seek whose search includes the character before the cursor.
RECURSIVE SeekWordLeft_FromCursor(_, _, _)
SeekWordLeft_FromCursor(line, pos, turns) ==
    IF pos = 0 THEN 0
    ELSE IF turns = 0 THEN NeverReturns
    ELSE LET p == RFind(line, 0, pos) + 1
         IN  IF At(line, p) = NoValue THEN IndexError
             ELSE IF At(line, p) # " " THEN p
             ELSE SeekWordLeft_FromCursor(line, p, turns - 1)

\* InputWindow.seek_word_left: the position the loop leaves, started at pos;
\* turns is the number of iterations after which the loop counts as endless.
RECURSIVE SeekWordLeft(_, _, _)
SeekWordLeft(line, pos, turns) ==
    IF pos = 0 THEN 0
    ELSE IF turns = 0 THEN NeverReturns
    ELSE LET p == RFind(line, 0, pos - 1) + 1
         IN  IF At(line, p) = NoValue THEN IndexError
             ELSE IF At(line, p) # " " THEN p
             ELSE SeekWordLeft(line, p, turns - 1)

\* InputWindow.seek_word_right.
RECURSIVE SeekWordRight(_, _, _)
SeekWordRight(line, pos, turns) ==
    IF pos = Len(line) THEN pos
    ELSE IF turns = 0 THEN NeverReturns
    ELSE LET found == Find(line, pos + 1)
             p == IF found = -1 THEN Len(line) ELSE found
         IN  IF At(line, p - 1) = NoValue THEN IndexError
             ELSE IF At(line, p - 1) # " " THEN p
             ELSE SeekWordRight(line, p, turns - 1)

\* More iterations than a loop that moves the cursor each time can make.
Turns(line) == Len(line) + 1

\* InputWindow.reset_prompt.
ResetPrompt(inp) ==
    [inp EXCEPT !.lines = Append(inp.history, <<>>),
                !.index = Len(inp.history), !.pos = 0]

\* InputWindow.cut_length(line, n), at the cursor pos.
CutLength(inp, line, pos, n) ==
    [inp EXCEPT !.lines[inp.index + 1] =
                    Slice(line, 0, pos) \o Slice(line, pos + n, Len(line)),
                !.pos = pos]

\* A history that takes every line entered, equal to the last or not.
Entered_Always(history, line) ==
    IF line # <<>> /\ line[1] # " " THEN Append(history, Strip(line))
    ELSE history

\* The history after Enter on `line`.
Entered(history, line) ==
    IF line # <<>> /\ line[1] # " "
          /\ (history = <<>> \/ history[Len(history)] # Strip(line))
    THEN Append(history, Strip(line))
    ELSE history

\* The window that failed in a seek: the exception leaves handle_keypress.
Failed(inp, seek) ==
    [inp EXCEPT !.error = IF seek = IndexError THEN "IndexError"
                          ELSE "never returns"]

\* InputWindow.handle_keypress(ch) on the window inp.
Keypress(inp, ch) ==
    LET line == inp.lines[inp.index + 1]
        left == SeekWordLeft(line, inp.pos, Turns(line))
        right == SeekWordRight(line, inp.pos, Turns(line))
    IN  CASE ch = "Enter" ->
               ResetPrompt([inp EXCEPT !.history = Entered(@, line)])
          [] ch = "Ctrl+C" -> ResetPrompt(inp)
          [] ch = "KEY_UP" ->
               IF inp.index > 0
               THEN [inp EXCEPT !.index = @ - 1,
                                !.pos = Len(inp.lines[inp.index])]
               ELSE inp
          [] ch = "KEY_DOWN" ->
               IF inp.index < Len(inp.lines) - 1
               THEN [inp EXCEPT !.index = @ + 1,
                                !.pos = Len(inp.lines[inp.index + 2])]
               ELSE inp
          [] ch = "KEY_LEFT" ->
               IF inp.pos > 0 THEN [inp EXCEPT !.pos = @ - 1] ELSE inp
          [] ch = "KEY_RIGHT" ->
               IF inp.pos < Len(line) THEN [inp EXCEPT !.pos = @ + 1] ELSE inp
          [] ch = "KEY_HOME" -> [inp EXCEPT !.pos = 0]
          [] ch = "KEY_END" -> [inp EXCEPT !.pos = Len(line)]
          [] ch = "CTL_LEFT" ->
               IF left < 0 THEN Failed(inp, left) ELSE [inp EXCEPT !.pos = left]
          [] ch = "CTL_RIGHT" ->
               IF right < 0 THEN Failed(inp, right)
               ELSE [inp EXCEPT !.pos = right]
          [] ch = "CTL_BKSP" ->
               IF left < 0 THEN Failed(inp, left)
               ELSE CutLength(inp, line, left, inp.pos - left)
          [] ch = "CTL_DEL" ->
               IF right < 0 THEN Failed(inp, right)
               ELSE CutLength(inp, line, inp.pos, right - inp.pos)
          [] ch = "KEY_BACKSPACE" ->
               IF inp.pos = 0 THEN inp
               ELSE CutLength(inp, line, inp.pos - 1, 1)
          [] ch = "KEY_DC" ->
               IF inp.pos >= Len(line) THEN inp
               ELSE CutLength(inp, line, inp.pos, 1)
          [] OTHER ->
               [inp EXCEPT !.lines[inp.index + 1] =
                               Slice(line, 0, inp.pos) \o <<ch>>
                                   \o Slice(line, inp.pos, Len(line)),
                           !.pos = @ + 1]

\* The input loop hands one key to handle_keypress; Enter runs the line as
\* a command: no line over LineChars names a command, so run_command ends
\* before the import of a module. A window that failed takes no more keys;
\* windows of up to MaxText characters and histories of up to two entries
\* are followed.
HandleKeypress(ch) ==
    /\ input.error = NoValue
    /\ ch \in LineChars => TextLen(input.lines) < MaxText
    /\ Len(Keypress(input, ch).history) <= 2
    /\ input' = Keypress(input, ch)
    /\ IF ch = "Enter"
       THEN LET line == input.lines[input.index + 1]
            IN  RunCommand(IF line # <<>> /\ line[1] # " "
                           THEN Strip(line) ELSE line,
                           TRUE, TRUE, "returned")
       ELSE UNCHANGED shell
    /\ UNCHANGED <<moduleVars, network, logger>>

NextInput == \E ch \in Keys : HandleKeypress(ch)

SpecInput == Init /\ [][NextInput]_vars

\* C36: after any sequence of keypresses handled by handle_keypress,
\* 0 <= index < len(lines) and 0 <= pos <= len(lines[index]); the word-wise
\* moves seek_word_left and seek_word_right end and leave the cursor in the
\* line.
C36_CursorInLine ==
    /\ input.error = NoValue
    /\ 0 <= input.index /\ input.index < Len(input.lines)
    /\ 0 <= input.pos /\ input.pos <= Len(input.lines[input.index + 1])

\* The cursor stands between the two words of a recalled line that was
\* edited.
C36_Witness ==
    /\ Len(input.history) = 2
    /\ input.index = 0
    /\ input.lines[1] = <<"a", " ", "a">>
    /\ input.lines[1] # input.history[1]
    /\ input.pos = 2

\* C39: the history changes only when Enter is pressed: Enter appends the
\* stripped line unless the line is empty, begins with a space or equals
\* the last entry, so no two consecutive entries are equal; every other
\* key, the edit of a recalled line included, leaves the history as it was.
C39_HistoryOnEnter ==
    [][LET line == input.lines[input.index + 1]
           last_entry == IF input.history = <<>> THEN <<>>
                         ELSE input.history[Len(input.history)]
           kept == \/ line = <<>>
                   \/ line[1] = " "
                   \/ (input.history # <<>> /\ last_entry = Strip(line))
           enter == input' = Keypress(input, "Enter")
       IN  /\ input'.history # input.history => enter
           /\ enter => input'.history =
                           IF kept THEN input.history
                           ELSE Append(input.history, Strip(line))
           /\ \A i \in 1 .. Len(input'.history) - 1 :
                 input'.history[i] # input'.history[i + 1]]_vars

\* Both entries of the history were recalled and edited: the lines differ
\* from the entries they were copied from.
C39_Witness ==
    /\ Len(input.history) = 2
    /\ Len(input.lines) = 3
    /\ input.lines[1] # input.history[1]
    /\ input.lines[2] # input.history[2]
    /\ input.lines[3] = input.history[2]

----------------------------------------------------------------------------
\* The network commands (cli/commands/modules/network.py): the adapter
\* mapping CONFIG and the address configuration of a mapped adapter.

Adapters == {"Ethernet", "Wi-Fi"}

\* The queries of "network use": the empty one and two that may match.
Queries == {"", "eth", "ap"}

\* Address lists, as get_adapter_addresses returns them and as a command
\* line gives them.
AddressLists == {<<>>, <<1>>, <<2>>, <<1, 2>>, <<2, 1>>}

\* sorted(addresses).
Sorted(addresses) == IF addresses = <<2, 1>> THEN <<1, 2>> ELSE addresses

\* What get_adapter_addresses can read from an adapter.
Reads == [dhcp : BOOLEAN, addresses : AddressLists]

\* The reads of the adapters while they are mapped.
MappedReads == {UsesDhcp, [dhcp |-> FALSE, addresses |-> <<1>>]}

\* The message of a command.
Said(said, index, assigned) ==
    [said |-> said, index |-> index, assigned |-> assigned]

\* NetworkConfig(index=index, adapter=adapter).
NetworkConfig(adapter) ==
    [adapter |-> adapter, dhcp |-> TRUE, addresses |-> <<>>, query |-> NoValue,
     keep |-> FALSE, no_replace |-> FALSE]

\* CONFIG.pop(index).
Popped(cfgs, index) == [i \in DOMAIN cfgs \ {index} |-> cfgs[i]]

\* CONFIG[index] = config.
Put(cfgs, index, entry) ==
    [i \in DOMAIN cfgs \cup {index} |-> IF i = index THEN entry ELSE cfgs[i]]

\* A use that never skips the assignment.
Skips_Never(cfgs, index, no_replace) == FALSE

\* use: the assignment is skipped.
Skips(cfgs, index, no_replace) == index \in DOMAIN cfgs /\ no_replace

\* The command "network use INDEX QUERY" with its flags, on the state net:
\* found is the adapter the lookup of the query returns, NoValue when none
\* matches, "raises" when the lookup raises; read is what
\* get_adapter_addresses returns for it.
Used(net, index, query, no_replace, keep, found, read) ==
    IF index <= 0
    THEN [net EXCEPT !.report = Said("Index must be at least 1", index, UsesDhcp)]
    ELSE IF query = ""
    THEN IF index \in DOMAIN net.CONFIG
         THEN [CONFIG |-> Popped(net.CONFIG, index),
               report |-> Said("Removed adapter assignment", index, UsesDhcp)]
         ELSE [net EXCEPT !.report = Said("KeyError", index, UsesDhcp)]
    ELSE IF found = "raises"
    THEN [net EXCEPT !.report = Said("Exception", index, UsesDhcp)]
    ELSE IF found = NoValue
    THEN [net EXCEPT !.report = Said("No adapter matching", index, UsesDhcp)]
    ELSE LET entry == IF index \in DOMAIN net.CONFIG THEN net.CONFIG[index]
                       ELSE NetworkConfig(found)
             flagged == [entry EXCEPT !.keep = keep, !.no_replace = no_replace]
         IN  IF Skips(net.CONFIG, index, no_replace)
             THEN [CONFIG |-> Put(net.CONFIG, index, flagged),
                   report |-> Said("Skipping", index, UsesDhcp)]
             ELSE [CONFIG |-> Put(net.CONFIG, index,
                                  [flagged EXCEPT !.adapter = found,
                                                  !.query = query,
                                                  !.dhcp = read.dhcp,
                                                  !.addresses = read.addresses]),
                   report |-> Said("Assigned", index, UsesDhcp)]

use(index, query, no_replace, keep, found, read) ==
    /\ network' = Used(network, index, query, no_replace, keep, found, read)
    /\ UNCHANGED <<moduleVars, shell, input, logger>>

\* NetworkConfig.set_addresses, after set_adapter_addresses returned: got is
\* what get_adapter_addresses reads then.
Reported(entry, got) ==
    IF got.addresses # entry.addresses /\ got.dhcp # entry.dhcp
    THEN "Couldn't apply" ELSE "configuration changed"

\* NetworkConfig.set_addresses on CONFIG[index]: applied is FALSE when
\* set_adapter_addresses raises.
SetAddresses(cfgs, index, applied, got) ==
    [CONFIG |-> cfgs,
     report |-> IF applied THEN Said(Reported(cfgs[index], got), index, got)
                ELSE Said("Exception", index, UsesDhcp)]

\* "network addr INDEX set ADDRESSES".
addr_set(index, addresses, applied, got) ==
    /\ index \in DOMAIN network.CONFIG
    /\ LET entry == network.CONFIG[index]
       IN  network' =
              IF Range(addresses) = Range(entry.addresses) /\ ~entry.dhcp
              THEN [network EXCEPT !.report =
                                       Said("already set", index, UsesDhcp)]
              ELSE SetAddresses(
                       Put(network.CONFIG, index,
                           [entry EXCEPT !.dhcp = FALSE,
                                          !.addresses = Sorted(addresses)]),
                       index, applied, got)
    /\ UNCHANGED <<moduleVars, shell, input, logger>>

\* "network addr INDEX dhcp".
addr_dhcp(index, applied, got) ==
    /\ index \in DOMAIN network.CONFIG
    /\ LET entry == network.CONFIG[index]
       IN  network' =
              IF entry.dhcp
              THEN [network EXCEPT !.report =
                                       Said("already uses DHCP", index, UsesDhcp)]
              ELSE SetAddresses(
                       Put(network.CONFIG, index,
                           [entry EXCEPT !.dhcp = TRUE, !.addresses = <<>>]),
                       index, applied, got)
    /\ UNCHANGED <<moduleVars, shell, input, logger>>

\* The address commands on the adapter mapped at index 1.
NextAddress ==
    \/ \E query \in Queries, no_replace \in BOOLEAN, keep \in BOOLEAN,
          found \in Adapters \cup {NoValue, "raises"}, read \in MappedReads :
          use(1, query, no_replace, keep, found, read)
    \/ \E addresses \in AddressLists, applied \in BOOLEAN, got \in Reads :
          addr_set(1, addresses, applied, got)
    \/ \E applied \in BOOLEAN, got \in Reads : addr_dhcp(1, applied, got)

SpecAddress == Init /\ [][NextAddress]_vars

\* C37: after applying an address configuration, set_addresses reports
\* failure whenever the adapter's resulting DHCP flag or address list
\* differs from what was requested, and success only when both match.
C37_FailureReported ==
    network.report.said \in {"Couldn't apply", "configuration changed"} =>
        LET requested == network.CONFIG[network.report.index]
            assigned == network.report.assigned
        IN  network.report.said = "Couldn't apply"
                <=> \/ assigned.dhcp # requested.dhcp
                    \/ assigned.addresses # requested.addresses

\* The adapter mapping under "network use" with any index and flags.
NextUse ==
    \E index \in 0 .. 2, query \in Queries, no_replace \in BOOLEAN,
       keep \in BOOLEAN, found \in Adapters \cup {NoValue, "raises"},
       read \in MappedReads :
       use(index, query, no_replace, keep, found, read)

SpecUse == Init /\ [][NextUse]_vars

\* The mapping of `index` after "network use INDEX QUERY" with
\* --no-replace, run in the state the program is in.
AfterNoReplace(index, query, keep, found, read) ==
    Used(network, index, query, TRUE, keep, found, read).CONFIG

\* C38, as stated: "network use INDEX QUERY" with --no-replace on an index
\* that is already mapped leaves that index's mapping entirely unchanged:
\* adapter, query, DHCP flag, addresses, keep flag and no_replace flag.
C38_MappingUnchanged ==
    \A index \in DOMAIN network.CONFIG, query \in Queries \ {""},
       keep \in BOOLEAN, found \in Adapters \cup {NoValue, "raises"},
       read \in MappedReads :
       LET after == AfterNoReplace(index, query, keep, found, read)
       IN  /\ index \in DOMAIN after
           /\ after[index] = network.CONFIG[index]

\* C38, amended: the command leaves the adapter, the query, the DHCP flag
\* and the addresses of the mapping unchanged; when an adapter matches the
\* query it sets the keep flag to the command's --keep and no_replace to
\* true, and when none matches or the lookup fails it changes nothing. The
\* mappings of the other indices stay as they were.
C38_AssignmentUnchanged ==
    \A index \in DOMAIN network.CONFIG, query \in Queries \ {""},
       keep \in BOOLEAN, found \in Adapters \cup {NoValue, "raises"},
       read \in MappedReads :
       LET after == AfterNoReplace(index, query, keep, found, read)
       IN  /\ DOMAIN after = DOMAIN network.CONFIG
           /\ \A i \in DOMAIN after \ {index} : after[i] = network.CONFIG[i]
           /\ after[index] =
                 IF found \in Adapters
                 THEN [network.CONFIG[index] EXCEPT
                          !.keep = keep, !.no_replace = TRUE]
                 ELSE network.CONFIG[index]

\* The command was skipped on a mapping that was kept and replaceable, and
\* left it with other flags.
C38_Witness ==
    /\ network.report.said = "Skipping"
    /\ network.report.index = 1
    /\ network.CONFIG[1].no_replace
    /\ ~network.CONFIG[1].keep
    /\ network.CONFIG[1].adapter = "Ethernet"
    /\ network.CONFIG[1].query = "eth"
    /\ 2 \in DOMAIN network.CONFIG

----------------------------------------------------------------------------
\* The logging handler (util/logging.py): log calls of several threads, each
\* through logging.Handler.handle, emit, emit_string and emit_raw.

\* The log call of thread t goes on to `at` and leaves the handler's lock
\* and emit_lock as given.
Logged(t, at, out, lock, emit_lock) ==
    [logger EXCEPT !.at[t] = at, !.out[t] = out, !.lock = lock,
                   !.emit_lock = emit_lock]

\* LoggingHandler.add_emitter.
add_emitter ==
    /\ logger.emitters < MaxEmitter
    /\ logger' = [logger EXCEPT !.emitters = @ + 1]
    /\ UNCHANGED <<moduleVars, shell, input, network>>

\* A thread calls a logging function.
Log(t) ==
    /\ logger.at[t] = "idle"
    /\ logger' = Logged(t, "handle", NoValue, logger.lock, logger.emit_lock)
    /\ UNCHANGED <<moduleVars, shell, input, network>>

\* logging.Handler.handle: the thread takes the lock of the handler and
\* calls emit, which reaches emit_raw.
Handle(t) ==
    /\ logger.at[t] = "handle"
    /\ logger.lock = 0
    /\ logger' = Logged(t, "acquire", NoValue, t, logger.emit_lock)
    /\ UNCHANGED <<moduleVars, shell, input, network>>

\* emit_raw: emit_lock.acquire(timeout=1.0) takes the free lock.
Acquire(t) ==
    /\ logger.at[t] = "acquire"
    /\ ~logger.emit_lock
    /\ logger' = Logged(t, "section", NoValue, logger.lock, TRUE)
    /\ UNCHANGED <<moduleVars, shell, input, network>>

\* emit_raw: emit_lock.acquire(timeout=1.0) returns False after a second in
\* which the lock was not free; the result is not looked at.
AcquireTimeout(t) ==
    /\ logger.at[t] = "acquire"
    /\ logger.emit_lock
    /\ logger' = Logged(t, "section", NoValue, logger.lock, TRUE)
    /\ UNCHANGED <<moduleVars, shell, input, network>>

\* emit_raw: the output and the emitters. An emitter that raises ends the
\* call: the exception leaves emit_raw and emit, and handle frees the lock
\* of the handler on the way out.
Emit(t, raises) ==
    /\ logger.at[t] = "section"
    /\ raises => logger.emitters > 0
    /\ logger' = IF raises
                 THEN Logged(t, "idle", "Exception", 0, logger.emit_lock)
                 ELSE Logged(t, "release", NoValue, logger.lock,
                             logger.emit_lock)
    /\ UNCHANGED <<moduleVars, shell, input, network>>

\* emit_raw: emit_lock.release(), which raises RuntimeError on a lock that
\* is not held; then the call returns through handle.
Release(t) ==
    /\ logger.at[t] = "release"
    /\ logger' = Logged(t, "idle",
                        IF logger.emit_lock THEN "returned"
                        ELSE "RuntimeError", 0, FALSE)
    /\ UNCHANGED <<moduleVars, shell, input, network>>

NextLog ==
    \/ add_emitter
    \/ \E t \in Threads : Log(t)
    \/ \E t \in Threads : Handle(t)
    \/ \E t \in Threads : Acquire(t)
    \/ \E t \in Threads : AcquireTimeout(t)
    \/ \E t \in Threads, raises \in BOOLEAN : Emit(t, raises)
    \/ \E t \in Threads : Release(t)

SpecLog == Init /\ [][NextLog]_vars

\* C40: at most one thread at a time is inside the output and emitter
\* section of emit_raw, and emit_lock is free after every call, a call in
\* which an emitter raised included: it is free whenever no thread is in
\* emit_raw.
C40_SectionExclusive ==
    /\ Cardinality({t \in Threads :
                       logger.at[t] \in {"section", "release"}}) <= 1
    /\ (\A t \in Threads : logger.at[t] \in {"idle", "handle"})
          => ~logger.emit_lock
====
